---------------------------- MODULE Spec2Model ----------------------------
(***************************************************************************)
(* DingtalkFriday: the synchronisation pipeline of backend/app.            *)
(*                                                                         *)
(*   services/sync.py   the four stages and full_sync                      *)
(*   routers/sync.py    POST /api/sync, the background task and _sync_lock *)
(*   main.py            the cron-scheduled job                             *)
(*   dingtalk/*.py      the fetchers the stages call                       *)
(*                                                                         *)
(* The vendor is the variable `remote`; the local store is the four tables *)
(* and sync_log.  A stage body is one step: it runs from its first remote  *)
(* call to its _finish_sync_log.  Timestamp columns (updated_at,           *)
(* created_at, started_at) are left out; finished_at is kept as the number *)
(* of times a row was finished.                                            *)
(***************************************************************************)
EXTENDS Integers, Sequences, FiniteSets, TLC

\* ------------------------------------------------------------------ bounds
MaxTriggers == 2
MaxDept == 2
MaxUsers == 2
MaxTypes == 2
MaxRecs == 1
MaxRequests == 2
MaxDay == 6

\* ------------------------------------------------------- program constants
root_dept_id == 55205497
first_dept_id == 100
candidate_limit == 5
batch_size == 50
default_hours_in_per_day == 800
default_size == 50
TOKEN_REFRESH_BUFFER == 300
default_expires_in == 7200
\* Python None / SQL NULL of an integer column; "" of admin_userid
NULL == -1
\* Python None of a text column
None == "None"

\* ----------------------------------------------------------------- domains
DeptIds == first_dept_id .. (first_dept_id + MaxDept - 1)
Parents == {root_dept_id} \cup DeptIds
UserIds == 1 .. MaxUsers
LeaveCodes == 1 .. MaxTypes
DeptNameOf(d) == IF d = first_dept_id THEN "Eng" ELSE "Ops"
UserNameOf(u) == IF u = 1 THEN "Ann" ELSE "Bob"
LeaveNameOf(c) == IF c = 1 THEN "annual" ELSE "sick"

\* The time line is scaled: a year holds two instants, the first inside the
\* window [Jan 1 00:00:00, Dec 31 23:59:59.000] and the second in the last
\* 999 ms of Dec 31, after the window's end.
Years == {1, 2}
\* datetime.now().year
current_year == 1
year_start_ms(year) == 2 * year
year_end_ms(year) == 2 * year
Times == UNION {{year_start_ms(y), year_end_ms(y) + 1} : y \in Years}

Stages == <<"department", "employee", "leave_type", "leave_record">>

RECURSIVE SortedSeq(_)
SortedSeq(S) ==
  IF S = {} THEN <<>>
  ELSE LET m == CHOOSE x \in S : \A y \in S : x <= y
       IN <<m>> \o SortedSeq(S \ {m})

Range(s) == {s[i] : i \in 1 .. Len(s)}

Abs(n) == IF n < 0 THEN 0 - n ELSE n

VARIABLES
  remote,        \* the vendor: what each endpoint answers
  settings,      \* app.config.settings: admin_userid, leave_type_names
  department,    \* table department
  employee,      \* table employee
  leave_type,    \* table leave_type
  leave_record,  \* table leave_record
  sync_log,      \* table sync_log, the rows of each trigger's run
  sync_lock,     \* routers/sync.py _sync_lock.locked()
  kind,          \* per trigger: "none", "post", "cron", "stage"
  pc,            \* per trigger: where its task stands
  args,          \* per trigger: the year and dept_id it was called with
  messages,      \* per trigger: full_sync's local list `messages`
  outcome,       \* per trigger: what full_sync gave its caller
  invoked,       \* per trigger: the stage invocations that returned or raised
  now,           \* time.time(), in seconds
  access_token,  \* dingtalk_client._access_token
  token_expires_at,  \* dingtalk_client._token_expires_at
  issued,        \* the vendor: the tokens it issued, when each expires, to whom
  traversal,     \* per trigger: sync_departments' queue, visited and count
  query,         \* a call of a query helper: its arguments, then its result
  gateway_calls  \* per gateway request: where _request stands and what it holds

sync_state == <<remote, settings, department, employee, leave_type, leave_record,
          sync_log, sync_lock, kind, pc, args, messages, outcome, invoked>>
gateway == <<now, access_token, token_expires_at, issued, gateway_calls>>
vars == <<sync_state, gateway, query, traversal>>


\* ---------------------------------------------------------------- messages
CountMsg(stage, n, extra) ==
  [kind |-> "count", stage |-> stage, n |-> n, extra |-> extra]
ErrorMsg(stage, e) == [kind |-> "error", stage |-> stage, text |-> e]
SkipMsg(stage, why, n) == [kind |-> "skip", stage |-> stage, why |-> why, n |-> n]
CombinedMsg(parts) == [kind |-> "combined", parts |-> parts]
NoMessage == [kind |-> "null"]

\* ---------------------------------------------------------------- fetchers
\* A fetcher gives [ok |-> TRUE, items |-> the normalised list] or
\* [ok |-> FALSE, err |-> the text of the exception it raises].
Raise(e) == [ok |-> FALSE, items |-> <<>>, err |-> e]
Return(items) == [ok |-> TRUE, items |-> items, err |-> ""]

get_sub_departments(dept_id) ==
  LET r == remote.sub[dept_id]
  IN IF ~r.ok THEN Raise("listsub failed")
     ELSE Return([i \in 1 .. Len(r.items) |->
                    [dept_id |-> r.items[i].dept_id,
                     name |-> r.items[i].name,
                     parent_id |-> r.items[i].parent_id]])

get_user_list_simple(dept_id) ==
  LET r == remote.users[dept_id]
  IN IF ~r.ok THEN Raise("listsimple failed")
     ELSE Return([i \in 1 .. Len(r.items) |->
                    [userid |-> r.items[i].userid, name |-> r.items[i].name]])

get_vacation_type_list(op_userid) ==
  IF op_userid \notin remote.type_ops THEN Raise("vacation type list failed")
  ELSE Return([i \in 1 .. Len(remote.types) |->
                 [leave_code |-> remote.types[i].leave_code,
                  leave_name |-> remote.types[i].leave_name,
                  leave_view_unit |-> remote.types[i].leave_view_unit,
                  hours_in_per_day |->
                    IF remote.types[i].hours_in_per_day = NULL
                    THEN default_hours_in_per_day
                    ELSE remote.types[i].hours_in_per_day]])

\* a variant of the filter that looks at leave_status alone
KeepVacationItem_StatusOnly(item) == item.leave_status = "success"

KeepVacationItem(item) == item.leave_status = "success" /\ item.cal_type = None

\* what the vendor answers for one page: `size` entries from `offset` on,
\* and whether more follow
VendorPage(listed, offset, size) ==
  [leave_records |->
     SubSeq(listed, offset + 1,
            IF offset + size < Len(listed) THEN offset + size ELSE Len(listed)),
   has_more |-> offset + size < Len(listed)]

\* the while True loop: the records kept so far and the offsets asked for
RECURSIVE FetchPages(_, _, _, _, _)
FetchPages(listed, current_offset, size, records, offsets) ==
  LET page == VendorPage(listed, current_offset, size)
      kept == records \o SelectSeq(page.leave_records, KeepVacationItem)
      asked == Append(offsets, current_offset)
  IN IF page.has_more
     THEN FetchPages(listed, current_offset + size, size, kept, asked)
     ELSE [records |-> kept, offsets |-> asked]

get_vacation_record_list_from(op_userid, leave_code, userids, offset, size) ==
  LET r == remote.vacation[leave_code]
      \* the vendor lists the records of the users asked for
      listed == SelectSeq(r.items, LAMBDA item : item.userid \in Range(userids))
      kept == FetchPages(listed, offset, size, <<>>, <<>>).records
  IN IF ~r.ok THEN Raise("vacation record list failed")
     ELSE Return([i \in 1 .. Len(kept) |->
                    [userid |-> kept[i].userid,
                     start_time |-> kept[i].start_time,
                     end_time |-> kept[i].end_time,
                     record_num_per_day |-> kept[i].record_num_per_day,
                     record_num_per_hour |-> kept[i].record_num_per_hour,
                     leave_status |-> kept[i].leave_status]])

\* offset and size left at their defaults
get_vacation_record_list(op_userid, leave_code, userids) ==
  get_vacation_record_list_from(op_userid, leave_code, userids, 0, default_size)

\* --------------------------------------------------------- department sync
\* a variant whose conflict target is parent_id: the stored rows under the
\* same parent give way to the new one
UpsertDepartment_PerParent(tbl, dept) ==
  {r \in tbl : r.dept_id # dept.dept_id /\ r.parent_id # dept.parent_id}
    \cup {[dept_id |-> dept.dept_id, name |-> dept.name,
           parent_id |-> dept.parent_id]}

\* INSERT ... ON CONFLICT (dept_id) DO UPDATE SET name, parent_id
UpsertDepartment(tbl, dept) ==
  {r \in tbl : r.dept_id # dept.dept_id}
    \cup {[dept_id |-> dept.dept_id, name |-> dept.name,
           parent_id |-> dept.parent_id]}

RECURSIVE UpsertDepartments(_, _)
UpsertDepartments(tbl, sub_depts) ==
  IF sub_depts = <<>> THEN tbl
  ELSE UpsertDepartments(UpsertDepartment(tbl, Head(sub_depts)), Tail(sub_depts))

\* a variant whose count += 1 sits in the while loop, not in the loop over
\* the children
RECURSIVE DepartmentBfs_CountsCalls(_, _, _, _, _)
DepartmentBfs_CountsCalls(queue, visited, tbl, count, calls) ==
  IF queue = <<>>
  THEN [raised |-> FALSE, err |-> "", department |-> tbl, count |-> count,
        calls |-> calls, queue |-> queue]
  ELSE LET parent_id == Head(queue)
           sub_depts == get_sub_departments(parent_id)
       IN IF parent_id \in visited
          THEN DepartmentBfs_CountsCalls(Tail(queue), visited, tbl, count, calls)
          ELSE IF ~sub_depts.ok
          THEN [raised |-> TRUE, err |-> sub_depts.err, department |-> tbl,
                count |-> count, calls |-> Append(calls, parent_id),
                queue |-> Tail(queue)]
          ELSE DepartmentBfs_CountsCalls(
                 Tail(queue) \o [i \in 1 .. Len(sub_depts.items) |->
                                   sub_depts.items[i].dept_id],
                 visited \cup {parent_id},
                 UpsertDepartments(tbl, sub_depts.items),
                 count + 1,
                 Append(calls, parent_id))

\* a variant whose visited.add sits in the loop over the children: a
\* department without children is never marked
RECURSIVE DepartmentBfs_MarksParentsOnly(_, _, _, _, _)
DepartmentBfs_MarksParentsOnly(queue, visited, tbl, count, calls) ==
  IF queue = <<>>
  THEN [raised |-> FALSE, err |-> "", department |-> tbl, count |-> count,
        calls |-> calls, queue |-> queue]
  ELSE LET parent_id == Head(queue)
           sub_depts == get_sub_departments(parent_id)
       IN IF parent_id \in visited
          THEN DepartmentBfs_MarksParentsOnly(Tail(queue), visited, tbl, count, calls)
          ELSE IF ~sub_depts.ok
          THEN [raised |-> TRUE, err |-> sub_depts.err, department |-> tbl,
                count |-> count, calls |-> Append(calls, parent_id),
                queue |-> Tail(queue)]
          ELSE DepartmentBfs_MarksParentsOnly(
                 Tail(queue) \o [i \in 1 .. Len(sub_depts.items) |->
                                   sub_depts.items[i].dept_id],
                 IF sub_depts.items = <<>> THEN visited ELSE visited \cup {parent_id},
                 UpsertDepartments(tbl, sub_depts.items),
                 count + Len(sub_depts.items),
                 Append(calls, parent_id))

\* the while loop of sync_departments: queue, visited, the table, count, and
\* the parents get_sub_departments was called for
RECURSIVE DepartmentBfs(_, _, _, _, _)
DepartmentBfs(queue, visited, tbl, count, calls) ==
  IF queue = <<>>
  THEN [raised |-> FALSE, err |-> "", department |-> tbl, count |-> count,
        calls |-> calls, queue |-> queue]
  ELSE LET parent_id == Head(queue)
           sub_depts == get_sub_departments(parent_id)
       IN IF parent_id \in visited
          THEN DepartmentBfs(Tail(queue), visited, tbl, count, calls)
          ELSE IF ~sub_depts.ok
          THEN [raised |-> TRUE, err |-> sub_depts.err, department |-> tbl,
                count |-> count, calls |-> Append(calls, parent_id),
                queue |-> Tail(queue)]
          ELSE DepartmentBfs(
                 Tail(queue) \o [i \in 1 .. Len(sub_depts.items) |->
                                   sub_depts.items[i].dept_id],
                 visited \cup {parent_id},
                 UpsertDepartments(tbl, sub_depts.items),
                 count + Len(sub_depts.items),
                 Append(calls, parent_id))

\* a variant whose upserts share one transaction that a failure rolls back
sync_departments_RollsBack ==
  LET r == DepartmentBfs(<<root_dept_id>>, {}, department, 0, <<>>)
  IN [raised |-> r.raised,
      status |-> IF r.raised THEN "failed" ELSE "success",
      msg |-> IF r.raised THEN ErrorMsg("department", r.err)
              ELSE CountMsg("department", r.count, <<>>),
      department |-> IF r.raised THEN department ELSE r.department,
      employee |-> employee,
      leave_type |-> leave_type, leave_record |-> leave_record,
      calls |-> r.calls]

\* the try block of sync_departments: the tables after it, the status and
\* message it hands to _finish_sync_log, and whether it raises
sync_departments ==
  LET r == DepartmentBfs(<<root_dept_id>>, {}, department, 0, <<>>)
  IN [raised |-> r.raised,
      status |-> IF r.raised THEN "failed" ELSE "success",
      msg |-> IF r.raised THEN ErrorMsg("department", r.err)
              ELSE CountMsg("department", r.count, <<>>),
      department |-> r.department, employee |-> employee,
      leave_type |-> leave_type, leave_record |-> leave_record,
      calls |-> r.calls]

\* ----------------------------------------------------------- employee sync
\* a variant that inserts new users only: ON CONFLICT (userid) DO NOTHING
UpsertEmployee_KeepExisting(tbl, user, did, dept_name) ==
  IF \E r \in tbl : r.userid = user.userid THEN tbl
  ELSE tbl \cup {[userid |-> user.userid, name |-> user.name, dept_id |-> did, dept_name |-> dept_name]}

\* INSERT ... ON CONFLICT (userid) DO UPDATE SET name, dept_id, dept_name
UpsertEmployee(tbl, user, did, dept_name) ==
  {r \in tbl : r.userid # user.userid}
    \cup {[userid |-> user.userid, name |-> user.name, dept_id |-> did,
           dept_name |-> dept_name]}

RECURSIVE UpsertEmployees(_, _, _, _)
UpsertEmployees(tbl, users, did, dept_name) ==
  IF users = <<>> THEN tbl
  ELSE UpsertEmployees(UpsertEmployee(tbl, Head(users), did, dept_name),
                       Tail(users), did, dept_name)

\* select(Department.name).where(dept_id == did); `if row:` leaves None
\* when there is no row or the name is the empty string
LocalDeptName(did) ==
  IF \E r \in department : r.dept_id = did /\ r.name # ""
  THEN (CHOOSE r \in department : r.dept_id = did).name
  ELSE None

\* select(Department.dept_id): dept_id is the integer primary key, the rows
\* come in its order
LocalDeptIds == SortedSeq({r.dept_id : r \in department})

RECURSIVE EmployeeLoop(_, _, _, _)
EmployeeLoop(dept_ids, tbl, count, calls) ==
  IF dept_ids = <<>>
  THEN [raised |-> FALSE, err |-> "", employee |-> tbl, count |-> count,
        calls |-> calls]
  ELSE LET did == Head(dept_ids)
           users == get_user_list_simple(did)
       IN IF ~users.ok
          THEN [raised |-> TRUE, err |-> users.err, employee |-> tbl,
                count |-> count, calls |-> Append(calls, did)]
          ELSE EmployeeLoop(Tail(dept_ids),
                            UpsertEmployees(tbl, users.items, did, LocalDeptName(did)),
                            count + Len(users.items), Append(calls, did))

EmployeeDeptIds(dept_id) ==
  LET dept_ids == IF dept_id # NULL THEN <<dept_id>> ELSE LocalDeptIds
  IN IF dept_ids = <<>> THEN <<root_dept_id>> ELSE dept_ids

sync_employees(dept_id) ==
  LET r == EmployeeLoop(EmployeeDeptIds(dept_id), employee, 0, <<>>)
  IN [raised |-> r.raised,
      status |-> IF r.raised THEN "failed" ELSE "success",
      msg |-> IF r.raised THEN ErrorMsg("employee", r.err)
              ELSE CountMsg("employee", r.count, <<Len(EmployeeDeptIds(dept_id))>>),
      department |-> department, employee |-> r.employee,
      leave_type |-> leave_type, leave_record |-> leave_record,
      calls |-> r.calls]


\* --------------------------------------------------------- leave type sync
\* select(Employee.userid): the rows in the order of the key
LocalUserIds == SortedSeq({r.userid : r \in employee})

FirstN(s, n) == SubSeq(s, 1, IF Len(s) < n THEN Len(s) ELSE n)

\* a variant that appends the rows read without the `not in candidates` test
Candidates_WithDuplicates ==
  LET first == IF settings.admin_userid # NULL
               THEN <<settings.admin_userid>> ELSE <<>>
  IN first \o FirstN(LocalUserIds, candidate_limit)

\* configured admin first, then up to 5 local employees not yet listed
Candidates ==
  LET first == IF settings.admin_userid # NULL
               THEN <<settings.admin_userid>> ELSE <<>>
  IN first \o SelectSeq(FirstN(LocalUserIds, candidate_limit),
                        LAMBDA u : u \notin Range(first))

\* the loop over the candidates: the first answer that does not raise, and
\* the candidates tried
RECURSIVE TryCandidates(_, _)
TryCandidates(candidates, tried) ==
  IF candidates = <<>> THEN [found |-> FALSE, types |-> <<>>, tried |-> tried]
  ELSE LET types == get_vacation_type_list(Head(candidates))
       IN IF types.ok
          THEN [found |-> TRUE, types |-> types.items,
                tried |-> Append(tried, Head(candidates))]
          ELSE TryCandidates(Tail(candidates), Append(tried, Head(candidates)))

\* a variant whose update adds the new hours to the stored ones
UpsertLeaveType_AddsHours(tbl, t) ==
  {r \in tbl : r.leave_code # t.leave_code}
    \cup {[leave_code |-> t.leave_code, leave_name |-> t.leave_name,
           leave_view_unit |-> t.leave_view_unit,
           hours_in_per_day |->
             IF \E r \in tbl : r.leave_code = t.leave_code
             THEN (CHOOSE r \in tbl : r.leave_code = t.leave_code).hours_in_per_day
                    + t.hours_in_per_day
             ELSE t.hours_in_per_day]}

\* INSERT ... ON CONFLICT (leave_code) DO UPDATE SET leave_name,
\* leave_view_unit, hours_in_per_day
UpsertLeaveType(tbl, t) ==
  {r \in tbl : r.leave_code # t.leave_code}
    \cup {[leave_code |-> t.leave_code, leave_name |-> t.leave_name,
           leave_view_unit |-> t.leave_view_unit,
           hours_in_per_day |-> t.hours_in_per_day]}

RECURSIVE UpsertLeaveTypes(_, _)
UpsertLeaveTypes(tbl, types) ==
  IF types = <<>> THEN tbl
  ELSE UpsertLeaveTypes(UpsertLeaveType(tbl, Head(types)), Tail(types))

StageResult(raised, status, msg, calls) ==
  [raised |-> raised, status |-> status, msg |-> msg,
   department |-> department, employee |-> employee,
   leave_type |-> leave_type, leave_record |-> leave_record, calls |-> calls]

\* a variant that raises when no candidate works
sync_leave_types_Raises ==
  LET r == TryCandidates(Candidates, <<>>)
  IN IF Candidates = <<>> \/ ~r.found
     THEN StageResult(TRUE, "failed",
                      ErrorMsg("leave_type", "No op_userid available"), r.tried)
     ELSE [StageResult(FALSE, "success",
                       CountMsg("leave_type", Len(r.types), <<>>), r.tried)
             EXCEPT !.leave_type = UpsertLeaveTypes(leave_type, r.types)]

sync_leave_types ==
  LET r == TryCandidates(Candidates, <<>>)
  IN IF Candidates = <<>>
     THEN StageResult(FALSE, "failed",
                      SkipMsg("leave_type", "No op_userid available", 0), <<>>)
     ELSE IF ~r.found
     THEN StageResult(FALSE, "failed",
                      SkipMsg("leave_type", "All candidates failed", Len(Candidates)),
                      r.tried)
     ELSE [StageResult(FALSE, "success",
                       CountMsg("leave_type", Len(r.types), <<>>), r.tried)
             EXCEPT !.leave_type = UpsertLeaveTypes(leave_type, r.types)]

\* ------------------------------------------------------- leave record sync
InYear(st, yr) == st >= year_start_ms(yr) /\ st <= year_end_ms(yr)

\* Python's `not x` of a value that is None or a number
Falsy(x) == x = NULL \/ x = 0

\* a variant whose chain looks at record_num_per_day first
Duration_DayFirst(rec, view_unit) ==
  IF rec.record_num_per_day # NULL
  THEN [ok |-> TRUE, percent |-> Abs(rec.record_num_per_day), unit |-> "percent_day"]
  ELSE IF rec.record_num_per_hour # NULL
  THEN [ok |-> TRUE, percent |-> Abs(rec.record_num_per_hour), unit |-> "percent_hour"]
  ELSE [ok |-> FALSE, percent |-> 0, unit |-> ""]

\* the if/elif chain that picks duration_percent and duration_unit
Duration(rec, view_unit) ==
  IF view_unit = "hour" /\ rec.record_num_per_hour # NULL
  THEN [ok |-> TRUE, percent |-> Abs(rec.record_num_per_hour), unit |-> "percent_hour"]
  ELSE IF rec.record_num_per_day # NULL
  THEN [ok |-> TRUE, percent |-> Abs(rec.record_num_per_day), unit |-> "percent_day"]
  ELSE IF rec.record_num_per_hour # NULL
  THEN [ok |-> TRUE, percent |-> Abs(rec.record_num_per_hour), unit |-> "percent_hour"]
  ELSE [ok |-> FALSE, percent |-> 0, unit |-> ""]

\* the record passes the `continue`s of the loop body
Storable(rec, view_unit, yr) ==
  /\ ~Falsy(rec.start_time)
  /\ ~Falsy(rec.end_time)
  /\ InYear(rec.start_time, yr)
  /\ Duration(rec, view_unit).ok

SameKey(r, rec) ==
  r.userid = rec.userid /\ r.start_time = rec.start_time /\ r.end_time = rec.end_time

\* a variant that leaves a stored row as it is: ON CONFLICT DO NOTHING
UpsertLeaveRecord_KeepFirst(tbl, rec, d, lt) ==
  IF \E r \in tbl : SameKey(r, rec) THEN tbl
  ELSE tbl \cup {[userid |-> rec.userid, start_time |-> rec.start_time,
                  end_time |-> rec.end_time, duration_percent |-> d.percent,
                  duration_unit |-> d.unit, leave_type |-> lt.leave_name,
                  leave_code |-> lt.leave_code, status |-> "approved"]}

\* INSERT ... ON CONFLICT (userid, start_time, end_time) DO UPDATE SET
\* duration_percent, duration_unit, leave_type, leave_code
UpsertLeaveRecord(tbl, rec, d, lt) ==
  IF \E r \in tbl : SameKey(r, rec)
  THEN {IF SameKey(r, rec)
        THEN [r EXCEPT !.duration_percent = d.percent, !.duration_unit = d.unit,
                       !.leave_type = lt.leave_name, !.leave_code = lt.leave_code]
        ELSE r : r \in tbl}
  ELSE tbl \cup {[userid |-> rec.userid, start_time |-> rec.start_time,
                  end_time |-> rec.end_time, duration_percent |-> d.percent,
                  duration_unit |-> d.unit, leave_type |-> lt.leave_name,
                  leave_code |-> lt.leave_code, status |-> "approved"]}

ViewUnit(lt) == IF lt.leave_view_unit \in {None, ""} THEN "day" ELSE lt.leave_view_unit

\* for rec in records
RECURSIVE RecordLoop(_, _, _, _, _)
RecordLoop(records, lt, yr, tbl, count) ==
  IF records = <<>> THEN [leave_record |-> tbl, count |-> count]
  ELSE LET rec == Head(records)
       IN IF Storable(rec, ViewUnit(lt), yr)
          THEN RecordLoop(Tail(records), lt, yr,
                          UpsertLeaveRecord(tbl, rec, Duration(rec, ViewUnit(lt)), lt),
                          count + 1)
          ELSE RecordLoop(Tail(records), lt, yr, tbl, count)

\* a variant whose range stops at the last full batch
Batches_DropsRemainder(userids) ==
  [k \in 1 .. (Len(userids) \div batch_size) |->
     SubSeq(userids, (k - 1) * batch_size + 1, k * batch_size)]

\* all_userids[i : i + batch_size] for i in range(0, len, batch_size)
Batches(userids) ==
  [k \in 1 .. ((Len(userids) + batch_size - 1) \div batch_size) |->
     SubSeq(userids, (k - 1) * batch_size + 1,
            IF k * batch_size < Len(userids) THEN k * batch_size ELSE Len(userids))]

\* for i in range(...): a fetch that raises is skipped
RECURSIVE BatchLoop(_, _, _, _, _, _, _)
BatchLoop(batches, op_userid, lt, yr, tbl, count, calls) ==
  IF batches = <<>> THEN [leave_record |-> tbl, count |-> count, calls |-> calls]
  ELSE LET records == get_vacation_record_list(op_userid, lt.leave_code, Head(batches))
           done == RecordLoop(records.items, lt, yr, tbl, count)
           called == Append(calls, <<lt.leave_code, Head(batches)>>)
       IN IF ~records.ok
          THEN BatchLoop(Tail(batches), op_userid, lt, yr, tbl, count, called)
          ELSE BatchLoop(Tail(batches), op_userid, lt, yr,
                         done.leave_record, done.count, called)

\* a variant that leaves the loop at the first leave type whose fetch raises
RECURSIVE TypeLoop_Break(_, _, _, _, _, _, _)
TypeLoop_Break(lts, userids, op_userid, yr, tbl, count, calls) ==
  IF lts = <<>> THEN [leave_record |-> tbl, count |-> count, calls |-> calls]
  ELSE LET done == BatchLoop(Batches(userids), op_userid, Head(lts), yr, tbl,
                             count, calls)
       IN IF ~remote.vacation[Head(lts).leave_code].ok
          THEN done
          ELSE TypeLoop_Break(Tail(lts), userids, op_userid, yr,
                              done.leave_record, done.count, done.calls)

\* for lt in leave_types
RECURSIVE TypeLoop(_, _, _, _, _, _, _)
TypeLoop(lts, userids, op_userid, yr, tbl, count, calls) ==
  IF lts = <<>> THEN [leave_record |-> tbl, count |-> count, calls |-> calls]
  ELSE LET done == BatchLoop(Batches(userids), op_userid, Head(lts), yr, tbl,
                             count, calls)
       IN TypeLoop(Tail(lts), userids, op_userid, yr,
                   done.leave_record, done.count, done.calls)

\* select(LeaveType), rows in the order of the key, then the whitelist
LocalLeaveTypes ==
  LET codes == SortedSeq({r.leave_code : r \in leave_type})
  IN [i \in 1 .. Len(codes) |-> CHOOSE r \in leave_type : r.leave_code = codes[i]]

QueriedLeaveTypes ==
  IF settings.leave_type_names = {} THEN LocalLeaveTypes
  ELSE SelectSeq(LocalLeaveTypes,
                 LAMBDA lt : lt.leave_name \in settings.leave_type_names)

OpUserid ==
  IF settings.admin_userid # NULL THEN settings.admin_userid
  ELSE IF LocalUserIds = <<>> THEN NULL ELSE LocalUserIds[1]

\* a variant whose delete has no upper end: where(start_time >= year_start_ms)
ClearYear_FromYearStart(tbl, yr) == {r \in tbl : r.start_time < year_start_ms(yr)}

\* delete(LeaveRecord).where(start_time >= year_start_ms, start_time <= year_end_ms)
ClearYear(tbl, yr) == {r \in tbl : ~InYear(r.start_time, yr)}

\* a variant that deletes the year's rows before it looks at its
\* preconditions
sync_leave_records_ClearsFirst(yr) ==
  LET r == TypeLoop(QueriedLeaveTypes, LocalUserIds, OpUserid, yr,
                    ClearYear(leave_record, yr), 0, <<>>)
      why == IF OpUserid = NULL THEN "No op_userid available"
             ELSE IF LocalUserIds = <<>> THEN "No employees found"
             ELSE "No leave types found"
  IN IF OpUserid = NULL \/ LocalUserIds = <<>> \/ leave_type = {}
     THEN [StageResult(FALSE, "failed", SkipMsg("leave_record", why, 0), <<>>)
             EXCEPT !.leave_record = ClearYear(leave_record, yr)]
     ELSE [StageResult(FALSE, "success",
                       CountMsg("leave_record", r.count, <<Len(LocalUserIds), yr>>),
                       r.calls)
             EXCEPT !.leave_record = r.leave_record]

\* a variant that merges instead of replacing: no delete before the loop,
\* and a record that meets a stored row adds its duration to the row's
sync_leave_records_Merge(yr) ==
  LET r == TypeLoop(QueriedLeaveTypes, LocalUserIds, OpUserid, yr, {}, 0, <<>>)
      kept == {old \in leave_record : ~\E nw \in r.leave_record : SameKey(old, nw)}
      merged == {IF \E old \in leave_record : SameKey(old, nw)
                 THEN LET old == CHOOSE o \in leave_record : SameKey(o, nw)
                      IN [nw EXCEPT !.duration_percent = @ + old.duration_percent]
                 ELSE nw : nw \in r.leave_record}
  IN IF OpUserid = NULL \/ LocalUserIds = <<>> \/ leave_type = {}
     THEN StageResult(FALSE, "failed",
                      SkipMsg("leave_record", "No employees found", 0), <<>>)
     ELSE [StageResult(FALSE, "success",
                       CountMsg("leave_record", r.count, <<Len(LocalUserIds), yr>>),
                       r.calls)
             EXCEPT !.leave_record = kept \cup merged]

sync_leave_records(yr) ==
  LET r == TypeLoop(QueriedLeaveTypes, LocalUserIds, OpUserid, yr,
                    ClearYear(leave_record, yr), 0, <<>>)
  IN IF OpUserid = NULL
     THEN StageResult(FALSE, "failed",
                      SkipMsg("leave_record", "No op_userid available", 0), <<>>)
     ELSE IF LocalUserIds = <<>>
     THEN StageResult(FALSE, "failed",
                      SkipMsg("leave_record", "No employees found", 0), <<>>)
     ELSE IF leave_type = {}
     THEN StageResult(FALSE, "failed",
                      SkipMsg("leave_record", "No leave types found", 0), <<>>)
     ELSE [StageResult(FALSE, "success",
                       CountMsg("leave_record", r.count, <<Len(LocalUserIds), yr>>),
                       r.calls)
             EXCEPT !.leave_record = r.leave_record]


\* ---------------------------------------------------------------- sync log
\* A row's id is the pair (trigger, position among the rows of its run):
\* the autoincrement id is only ever used as the handle _create_sync_log
\* returned.
Triggers == 1 .. MaxTriggers

CreateSyncLog(log, i, sync_type) ==
  [log EXCEPT ![i] = Append(@, [sync_type |-> sync_type, status |-> "running",
                                message |-> NoMessage, finished_at |-> 0])]

\* a variant whose UPDATE has no WHERE on the id: every row of the run
FinishSyncLog_AllRows(log, i, log_id, status, message) ==
  [log EXCEPT ![i] = [id \in 1 .. Len(@) |->
                        [@[id] EXCEPT !.status = status, !.message = message,
                                      !.finished_at = @ + 1]]]

\* a variant that never commits its write
FinishSyncLog_Lost(log, i, log_id, status, message) == log

FinishSyncLog(log, i, log_id, status, message) ==
  IF log_id \in 1 .. Len(log[i])
  THEN [log EXCEPT ![i][log_id] = [@ EXCEPT !.status = status,
                                            !.message = message,
                                            !.finished_at = @ + 1]]
  ELSE log

\* ------------------------------------------------------- triggers and runs
Tables == [department |-> department, employee |-> employee,
           leave_type |-> leave_type, leave_record |-> leave_record]

At(i) == pc[i][1]
StageOf(i) == pc[i][2]
NextSlot(i) == At(i) = "idle" /\ \A j \in 1 .. (i - 1) : At(j) # "idle"

\* between full_sync's first statement and its return or raise
InFullSync(i) ==
  kind[i] \in {"post", "cron"} /\ At(i) \in {"start", "create", "run", "finish", "except"}

\* POST /api/sync
trigger_sync(i, y) ==
  /\ NextSlot(i)
  /\ kind' = [kind EXCEPT ![i] = "post"]
  /\ args' = [args EXCEPT ![i] = [year |-> y, dept_id |-> NULL]]
  /\ pc' = [pc EXCEPT ![i] = IF sync_lock THEN <<"rejected", 0>> ELSE <<"queued", 0>>]
  /\ UNCHANGED <<gateway, query, traversal, remote, settings, department, employee, leave_type, leave_record,
                 sync_log, sync_lock, messages, outcome, invoked>>

\* the background task enters `async with _sync_lock`
run_sync(i) ==
  /\ kind[i] = "post" /\ At(i) = "queued"
  /\ ~sync_lock
  /\ sync_lock' = TRUE
  /\ pc' = [pc EXCEPT ![i] = <<"start", 0>>]
  /\ UNCHANGED <<gateway, query, traversal, remote, settings, department, employee, leave_type, leave_record,
                 sync_log, kind, args, messages, outcome, invoked>>

\* the cron job fires; APScheduler runs at most one instance of a job
scheduled_sync(i, y) ==
  /\ NextSlot(i)
  /\ \A j \in Triggers : kind[j] = "cron" => At(j) = "done"
  /\ kind' = [kind EXCEPT ![i] = "cron"]
  /\ args' = [args EXCEPT ![i] = [year |-> y, dept_id |-> NULL]]
  /\ pc' = [pc EXCEPT ![i] = <<"start", 0>>]
  /\ UNCHANGED <<gateway, query, traversal, remote, settings, department, employee, leave_type, leave_record,
                 sync_log, sync_lock, messages, outcome, invoked>>

\* full_sync up to the commit of its `full` row
full_sync_create(i) ==
  /\ At(i) = "start"
  /\ sync_log' = CreateSyncLog(sync_log, i, "full")
  /\ messages' = [messages EXCEPT ![i] = <<>>]
  /\ pc' = [pc EXCEPT ![i] = <<"create", 1>>]
  /\ UNCHANGED <<gateway, query, traversal, remote, settings, department, employee, leave_type, leave_record,
                 sync_lock, kind, args, outcome, invoked>>

\* a stage is called on its own (one of the orchestrator's operations): its
\* first statement creates its log row
call_stage(i, k, y, d) ==
  /\ NextSlot(i)
  /\ \A j \in 1 .. (i - 1) : At(j) = "done"
  /\ kind' = [kind EXCEPT ![i] = "stage"]
  /\ args' = [args EXCEPT ![i] = [year |-> y, dept_id |-> d]]
  /\ sync_log' = CreateSyncLog(sync_log, i, Stages[k])
  /\ pc' = [pc EXCEPT ![i] = <<"run", k>>]
  /\ UNCHANGED <<gateway, query, traversal, remote, settings, department, employee, leave_type, leave_record,
                 sync_lock, messages, outcome, invoked>>

\* the stage's first statement: log_id = await _create_sync_log(...)
stage_create(i) ==
  /\ At(i) = "create"
  /\ sync_log' = CreateSyncLog(sync_log, i, Stages[StageOf(i)])
  /\ pc' = [pc EXCEPT ![i] = <<"run", StageOf(i)>>]
  /\ UNCHANGED <<gateway, query, traversal, remote, settings, department, employee, leave_type, leave_record,
                 sync_lock, kind, args, messages, outcome, invoked>>

StageBody(k, a) ==
  IF k = 1 THEN sync_departments
  ELSE IF k = 2 THEN sync_employees(a.dept_id)
  ELSE IF k = 3 THEN sync_leave_types
  ELSE sync_leave_records(a.year)

\* a variant in which full_sync swallows a stage's exception and goes on
AfterStage_Continue(i, raised) ==
  IF kind[i] = "stage" THEN <<"done", 0>>
  ELSE IF StageOf(i) < Len(Stages) THEN <<"create", StageOf(i) + 1>>
  ELSE <<"finish", 0>>

\* a variant in which full_sync calls the leave-type stage before the
\* employee stage
AfterStage_TypesBeforeEmployees(i, raised) ==
  IF kind[i] = "stage" THEN <<"done", 0>>
  ELSE IF raised THEN <<"except", StageOf(i)>>
  ELSE IF StageOf(i) = 1 THEN <<"create", 3>>
  ELSE IF StageOf(i) = 3 THEN <<"create", 2>>
  ELSE IF StageOf(i) = 2 THEN <<"create", 4>>
  ELSE <<"finish", 0>>

\* where the caller goes on after the stage returned or raised
AfterStage(i, raised) ==
  IF kind[i] = "stage" THEN <<"done", 0>>
  ELSE IF raised THEN <<"except", StageOf(i)>>
  ELSE IF StageOf(i) < Len(Stages) THEN <<"create", StageOf(i) + 1>>
  ELSE <<"finish", 0>>

\* the stage's try block and its _finish_sync_log, to its return or raise
stage_run(i) ==
  /\ At(i) = "run"
  /\ LET res == StageBody(StageOf(i), args[i])
         log_id == Len(sync_log[i])
     IN /\ department' = res.department
        /\ employee' = res.employee
        /\ leave_type' = res.leave_type
        /\ leave_record' = res.leave_record
        /\ sync_log' = FinishSyncLog(sync_log, i, log_id, res.status, res.msg)
        /\ invoked' = [invoked EXCEPT ![i] =
             Append(@, [stage |-> Stages[StageOf(i)], args |-> args[i],
                        log_id |-> log_id, raised |-> res.raised,
                        msg |-> res.msg, calls |-> res.calls,
                        before |-> Tables,
                        after |-> [department |-> res.department,
                                   employee |-> res.employee,
                                   leave_type |-> res.leave_type,
                                   leave_record |-> res.leave_record]])]
        /\ messages' = [messages EXCEPT ![i] =
             IF res.raised THEN @ ELSE Append(@, res.msg)]
        /\ outcome' = [outcome EXCEPT ![i] =
             IF res.raised THEN [result |-> IF kind[i] = "stage" THEN "raised"
                                            ELSE "raising", err |-> res.msg.text]
             ELSE IF kind[i] = "stage" THEN [result |-> "returned", err |-> ""]
             ELSE @]
        /\ pc' = [pc EXCEPT ![i] = AfterStage(i, res.raised)]
  /\ UNCHANGED <<gateway, query, traversal, remote, settings, sync_lock, kind, args>>

\* a variant in which the lock is let go only when full_sync returned
ReleaseLock_OnReturnOnly(i) == IF kind[i] = "post" /\ At(i) = "finish" THEN FALSE ELSE sync_lock

\* `async with _sync_lock` ends when full_sync returned or raised
ReleaseLock(i) == IF kind[i] = "post" THEN FALSE ELSE sync_lock

\* full_sync after the fourth stage: the `full` row succeeds, it returns
full_sync_finish(i) ==
  /\ At(i) = "finish"
  /\ sync_log' = FinishSyncLog(sync_log, i, 1, "success", CombinedMsg(messages[i]))
  /\ outcome' = [outcome EXCEPT ![i] = [result |-> "returned", err |-> ""]]
  /\ sync_lock' = ReleaseLock(i)
  /\ pc' = [pc EXCEPT ![i] = <<"done", 0>>]
  /\ UNCHANGED <<gateway, query, traversal, remote, settings, department, employee, leave_type, leave_record,
                 kind, args, messages, invoked>>

\* full_sync's except block: the `full` row fails, the exception goes on to
\* the caller, which logs it
full_sync_except(i) ==
  /\ At(i) = "except"
  /\ sync_log' = FinishSyncLog(sync_log, i, 1, "failed",
                               ErrorMsg("full", outcome[i].err))
  /\ outcome' = [outcome EXCEPT ![i] = [result |-> "raised", err |-> @.err]]
  /\ sync_lock' = ReleaseLock(i)
  /\ pc' = [pc EXCEPT ![i] = <<"done", 0>>]
  /\ UNCHANGED <<gateway, query, traversal, remote, settings, department, employee, leave_type, leave_record,
                 kind, args, messages, invoked>>


\* ------------------------------------------------- the duration helpers
\* Python's floats, kept as exact fractions in lowest terms
RECURSIVE GCD(_, _)
GCD(a, b) == IF b = 0 THEN a ELSE GCD(b, a % b)
Rat(n, d) == LET g == GCD(Abs(n), d) IN [num |-> n \div g, den |-> d \div g]
RatMul(x, y) == Rat(x.num * y.num, x.den * y.den)
RatDiv(x, y) == Rat(x.num * y.den, x.den * y.num)

\* a variant that divides by the leave type's own hours per day
convert_duration_OwnHours(duration_percent, duration_unit, target_unit, hours_in_per_day) ==
  LET raw == Rat(duration_percent, 100)
      hpd == Rat(hours_in_per_day, 100)
      total_hours == IF duration_unit = "percent_hour" THEN raw
                     ELSE RatMul(raw, hpd)
  IN IF target_unit = "hour" THEN total_hours
     ELSE RatDiv(total_hours, hpd)

\* services/leave.py _convert_duration
convert_duration(duration_percent, duration_unit, target_unit, hours_in_per_day) ==
  LET raw == Rat(duration_percent, 100)
      hpd == Rat(hours_in_per_day, 100)
      STANDARD_HPD == Rat(8, 1)
      total_hours == IF duration_unit = "percent_hour" THEN raw
                     ELSE RatMul(raw, hpd)
  IN IF target_unit = "hour" THEN total_hours
     ELSE RatDiv(total_hours, STANDARD_HPD)

\* the days of the time line are 0 .. MaxDay, day 0 a Monday; a timestamp
\* counts half days
DayMs == 2
Dates == 0 .. MaxDay
Weekday(d) == d % 7

\* _ms_to_datetime(ms).date()
ms_to_date(ms) == ms \div DayMs

\* a variant that knows weekends only
is_workday_Weekends(d) == Weekday(d) < 5

\* services/leave.py _is_workday: chinese_calendar's answer, or the weekend
\* rule when the library is missing or has no data for the date
is_workday(d) ==
  IF query.calendar.installed /\ d \in query.calendar.known
  THEN d \in query.calendar.workdays
  ELSE Weekday(d) < 5

\* leave types that count every calendar day
CalendarDayLeaveTypes == {"maternity", "marriage"}
is_calendar_day_leave(leave_name) == leave_name \in CalendarDayLeaveTypes

\* the days of [start, end] that count
count_workdays(start, end, calendar_day) ==
  IF calendar_day THEN Cardinality(start .. end)
  ELSE Cardinality({d \in start .. end : is_workday(d)})

\* the record's hours per day, as _record_to_days picks it
RecordHpd(rec, type_map) ==
  IF rec.leave_code # NULL /\ rec.leave_code \in DOMAIN type_map
     /\ ~Falsy(type_map[rec.leave_code])
  THEN type_map[rec.leave_code]
  ELSE default_hours_in_per_day

\* the record's value, scaled by the share of its counted days that fall
\* in [period_start, period_end]
prorate_duration(rec, period_start, period_end, type_map, target_unit) ==
  LET full == convert_duration(rec.duration_percent, rec.duration_unit,
                               target_unit, RecordHpd(rec, type_map))
      rec_start == ms_to_date(rec.start_time)
      rec_end == ms_to_date(rec.end_time)
      calendar_day == is_calendar_day_leave(rec.leave_type)
      total == count_workdays(rec_start, rec_end, calendar_day)
      from == IF rec_start > period_start THEN rec_start ELSE period_start
      to == IF rec_end < period_end THEN rec_end ELSE period_end
  IN IF from > to \/ total = 0 THEN Rat(0, 1)
     ELSE RatMul(full, Rat(count_workdays(from, to, calendar_day), total))

NoQuery == [fn |-> "none"]

\* ------------------------------------------------------------ the gateway
Requests == 1 .. MaxRequests

\* the instants at which something happens
Instants == {0, 100, 6900, 7000}

\* what the vendor may answer: an HTTP error status, or an envelope in which
\* errcode and errmsg may be absent
Envelope(status, has_errcode, errcode, errmsg) ==
  [status |-> status, has_errcode |-> has_errcode, errcode |-> errcode,
   errmsg |-> errmsg]
Responses ==
  {Envelope(500, FALSE, 0, None)}
    \cup {Envelope(200, TRUE, 0, "ok"), Envelope(200, TRUE, 88, "busy"),
          Envelope(200, TRUE, -1, None), Envelope(200, FALSE, 0, None)}

\* /gettoken answers: an error, or a token good for expires_in seconds
\* (NULL: the field is absent)
TokenResponses ==
  {[envelope |-> Envelope(500, FALSE, 0, None), expires_in |-> NULL],
   [envelope |-> Envelope(200, TRUE, 88, "busy"), expires_in |-> NULL]}
    \cup {[envelope |-> Envelope(200, TRUE, 0, "ok"), expires_in |-> e] :
            e \in {NULL, 400}}

NoError == [kind |-> "none", errcode |-> 0, errmsg |-> ""]
DingTalkClientError(errcode, errmsg) ==
  [kind |-> "DingTalkClientError", errcode |-> errcode, errmsg |-> errmsg]
HTTPStatusError == [kind |-> "HTTPStatusError", errcode |-> 0, errmsg |-> ""]

IdleCall ==
  [pc |-> "idle", token |-> NULL, via |-> "none", left |-> 0,
   error |-> NoError, returned |-> FALSE, data |-> Envelope(0, FALSE, 0, None)]

InitGateway ==
  /\ now = 0
  /\ access_token = NULL
  /\ token_expires_at = 0
  /\ issued = <<>>
  /\ gateway_calls = [r \in Requests |-> IdleCall]

\* resp.raise_for_status(); errcode = data.get("errcode", 0);
\* if errcode != 0: raise DingTalkClientError(errcode, data.get("errmsg", "unknown"))
CheckEnvelope(resp) ==
  IF resp.status # 200 THEN HTTPStatusError
  ELSE IF resp.has_errcode /\ resp.errcode # 0
  THEN DingTalkClientError(resp.errcode,
                           IF resp.errmsg = None THEN "unknown" ELSE resp.errmsg)
  ELSE NoError

\* a variant that stores the vendor's expiry as it is
TokenExpiresAt_NoBuffer(expires_in) == now + expires_in

\* time.time() + expires_in - self.TOKEN_REFRESH_BUFFER
TokenExpiresAt(expires_in) == now + expires_in - TOKEN_REFRESH_BUFFER

\* the condition of get_access_token
NeedsRefresh == access_token = NULL \/ now >= token_expires_at

\* _request to its first suspension: get_access_token either starts
\* _refresh_token's GET /gettoken, or hands over the cached token and the
\* request goes out
request_start(r) ==
  /\ gateway_calls[r].pc = "idle"
  /\ gateway_calls' = [gateway_calls EXCEPT ![r] =
       IF NeedsRefresh
       THEN [@ EXCEPT !.pc = "gettoken"]
       ELSE [@ EXCEPT !.pc = "request", !.token = access_token, !.via = "cache",
                      !.left = issued[access_token].expires - now]]
  /\ UNCHANGED <<sync_state, query, traversal, now, access_token, token_expires_at, issued>>

\* a variant of _refresh_token that drops the cached token when the
\* refresh fails
gettoken_response_ClearsOnError(r, resp) ==
  /\ gateway_calls[r].pc = "gettoken"
  /\ LET err == CheckEnvelope(resp.envelope)
         expires_in == IF resp.expires_in = NULL THEN default_expires_in
                       ELSE resp.expires_in
         token == Len(issued) + 1
     IN IF err.kind # "none"
        THEN /\ gateway_calls' = [gateway_calls EXCEPT ![r] = [@ EXCEPT !.pc = "raised", !.error = err]]
             /\ access_token' = NULL
             /\ UNCHANGED <<token_expires_at, issued>>
        ELSE /\ issued' = Append(issued, [expires |-> now + expires_in, to |-> r])
             /\ access_token' = token
             /\ token_expires_at' = TokenExpiresAt(expires_in)
             /\ gateway_calls' = [gateway_calls EXCEPT ![r] =
                  [@ EXCEPT !.pc = "request", !.token = token, !.via = "refresh",
                            !.left = expires_in]]
  /\ UNCHANGED <<sync_state, query, traversal, now>>

\* /gettoken answered: _refresh_token raises, or writes the cache and
\* returns the token, and the request goes out with it
gettoken_response(r, resp) ==
  /\ gateway_calls[r].pc = "gettoken"
  /\ LET err == CheckEnvelope(resp.envelope)
         expires_in == IF resp.expires_in = NULL THEN default_expires_in
                       ELSE resp.expires_in
         token == Len(issued) + 1
     IN IF err.kind # "none"
        THEN /\ gateway_calls' = [gateway_calls EXCEPT ![r] = [@ EXCEPT !.pc = "raised", !.error = err]]
             /\ UNCHANGED <<access_token, token_expires_at, issued>>
        ELSE /\ issued' = Append(issued, [expires |-> now + expires_in, to |-> r])
             /\ access_token' = token
             /\ token_expires_at' = TokenExpiresAt(expires_in)
             /\ gateway_calls' = [gateway_calls EXCEPT ![r] =
                  [@ EXCEPT !.pc = "request", !.token = token, !.via = "refresh",
                            !.left = expires_in]]
  /\ UNCHANGED <<sync_state, query, traversal, now>>

\* a variant of the end of _request that hands over whatever arrived
RequestOutcome_NoCheck(call, resp) ==
  IF resp.status # 200
  THEN [call EXCEPT !.pc = "raised", !.error = HTTPStatusError]
  ELSE [call EXCEPT !.pc = "returned", !.returned = TRUE, !.data = resp]

\* the end of _request: raise, or return data
RequestOutcome(call, resp) ==
  LET err == CheckEnvelope(resp)
  IN IF err.kind # "none"
     THEN [call EXCEPT !.pc = "raised", !.error = err, !.data = resp]
     ELSE [call EXCEPT !.pc = "returned", !.returned = TRUE, !.data = resp]

\* the vendor answered the request
request_response(r, resp) ==
  /\ gateway_calls[r].pc = "request"
  /\ gateway_calls' = [gateway_calls EXCEPT ![r] = RequestOutcome(@, resp)]
  /\ UNCHANGED <<sync_state, query, traversal, now, access_token, token_expires_at, issued>>

\* time passes
Tick ==
  /\ \E t \in Instants : t > now /\ now' = t
  /\ UNCHANGED <<sync_state, query, traversal, access_token, token_expires_at, issued, gateway_calls>>

\* ------------------------------------- sync_departments, call by call
\* The department stage with every await of get_sub_departments a step of
\* its own, so that the vendor's tree may change between two listings.
NoTraversal ==
  [active |-> FALSE, queue |-> <<>>, visited |-> {}, count |-> 0, calls |-> <<>>,
   before |-> {}]

\* count = 0; queue = [settings.root_dept_id]; visited = set()
sync_departments_begin(i) ==
  /\ At(i) = "run" /\ StageOf(i) = 1 /\ kind[i] = "stage"
  /\ ~traversal[i].active
  /\ traversal' = [traversal EXCEPT ![i] =
       [active |-> TRUE, queue |-> <<root_dept_id>>, visited |-> {}, count |-> 0,
        calls |-> <<>>, before |-> department]]
  /\ UNCHANGED <<sync_state, gateway, query>>

\* the stage returns or raises: _finish_sync_log and the caller's view
DepartmentsOver(i, raised, msg, calls) ==
  LET log_id == Len(sync_log[i])
  IN /\ sync_log' = FinishSyncLog(sync_log, i, log_id,
                                  IF raised THEN "failed" ELSE "success", msg)
     /\ invoked' = [invoked EXCEPT ![i] =
          Append(@, [stage |-> "department", args |-> args[i], log_id |-> log_id,
                     raised |-> raised, msg |-> msg, calls |-> calls,
                     before |-> [Tables EXCEPT !.department = traversal[i].before],
                     after |-> Tables])]
     /\ messages' = [messages EXCEPT ![i] = IF raised THEN @ ELSE Append(@, msg)]
     /\ outcome' = [outcome EXCEPT ![i] =
          IF raised THEN [result |-> "raised", err |-> msg.text]
          ELSE [result |-> "returned", err |-> ""]]
     /\ pc' = [pc EXCEPT ![i] = <<"done", 0>>]
     /\ traversal' = [traversal EXCEPT ![i] = NoTraversal]

\* one turn of the while loop: a visited id is dropped; otherwise the
\* vendor is asked, and either the call raises and the stage ends failed,
\* or every child is upserted and queued
sync_departments_step(i) ==
  /\ traversal[i].active
  /\ traversal[i].queue # <<>>
  /\ LET t == traversal[i]
         parent_id == Head(t.queue)
         sub_depts == get_sub_departments(parent_id)
     IN IF parent_id \in t.visited
        THEN /\ traversal' = [traversal EXCEPT ![i].queue = Tail(t.queue)]
             /\ UNCHANGED <<department, sync_log, invoked, messages, outcome, pc>>
        ELSE IF ~sub_depts.ok
        THEN /\ DepartmentsOver(i, TRUE, ErrorMsg("department", sub_depts.err),
                                Append(t.calls, parent_id))
             /\ UNCHANGED department
        ELSE /\ department' = UpsertDepartments(department, sub_depts.items)
             /\ traversal' = [traversal EXCEPT ![i] =
                  [t EXCEPT !.queue = Tail(t.queue) \o
                                        [n \in 1 .. Len(sub_depts.items) |->
                                           sub_depts.items[n].dept_id],
                            !.visited = t.visited \cup {parent_id},
                            !.count = t.count + Len(sub_depts.items),
                            !.calls = Append(t.calls, parent_id)]]
             /\ UNCHANGED <<sync_log, invoked, messages, outcome, pc>>
  /\ UNCHANGED <<gateway, query, remote, settings, employee, leave_type,
                 leave_record, sync_lock, kind, args>>

\* the queue is empty: msg = f"Synced {count} departments"
sync_departments_end(i) ==
  /\ traversal[i].active
  /\ traversal[i].queue = <<>>
  /\ DepartmentsOver(i, FALSE, CountMsg("department", traversal[i].count, <<>>),
                     traversal[i].calls)
  /\ UNCHANGED <<gateway, query, remote, settings, department, employee,
                 leave_type, leave_record, sync_lock, kind, args>>

\* ------------------------------------------------- GET /api/departments
\* a variant that asks the vendor whether or not local rows exist
GetDepartments_AlwaysSyncs(parent_id) ==
  LET sub_depts == get_sub_departments(parent_id)
      synced == sub_depts.ok /\ sub_depts.items # <<>>
      tbl == IF synced THEN UpsertDepartments(department, sub_depts.items)
             ELSE department
  IN [synced |-> synced, department |-> tbl,
      departments |-> {d \in tbl : d.parent_id = parent_id}]

\* routers/departments.py get_departments up to the re-query: the local
\* rows under parent_id; when there are none the vendor's listing is
\* upserted (an exception is logged and swallowed)
GetDepartments(parent_id) ==
  LET local == {d \in department : d.parent_id = parent_id}
      sub_depts == get_sub_departments(parent_id)
      synced == local = {} /\ sub_depts.ok /\ sub_depts.items # <<>>
      tbl == IF synced THEN UpsertDepartments(department, sub_depts.items)
             ELSE department
  IN [synced |-> synced, department |-> tbl,
      departments |-> {d \in tbl : d.parent_id = parent_id}]

\* the handler, to its response
get_departments(parentId) ==
  LET parent_id == IF parentId # NULL THEN parentId ELSE root_dept_id
      r == GetDepartments(parent_id)
  IN /\ department' = r.department
     /\ query' = [fn |-> "get_departments", parent_id |-> parent_id,
                  synced |-> r.synced,
                  response |->
                    {[dept_id |-> d.dept_id, name |-> d.name,
                      parent_id |-> d.parent_id,
                      hasChildren |-> \E c \in r.department :
                                         c.parent_id = d.dept_id] :
                       d \in r.departments}]
     /\ UNCHANGED <<gateway, traversal, remote, settings, employee, leave_type, leave_record,
                    sync_log, sync_lock, kind, pc, args, messages, outcome,
                    invoked>>

\* ------------------------------------------------------------- the vendor
DeptItem(d, p) == [dept_id |-> d, name |-> DeptNameOf(d), parent_id |-> p]
UserItem(u) == [userid |-> u, name |-> UserNameOf(u)]
TypeItem(c, unit, hours) ==
  [leave_code |-> c, leave_name |-> LeaveNameOf(c), leave_view_unit |-> unit,
   hours_in_per_day |-> hours]
VacationItem(u, st, et, per_day, per_hour, status, cal) ==
  [userid |-> u, start_time |-> st, end_time |-> et,
   record_num_per_day |-> per_day, record_num_per_hour |-> per_hour,
   leave_status |-> status, cal_type |-> cal]

Answer(ok, items) == [ok |-> ok, items |-> items]

\* One small organisation; every endpoint answers, or one of them fails:
\* the root has the department 100, which lists user 1 or nobody; one leave
\* type; one record of user 1 in year 1.
PipelineRemotes ==
  {[sub |-> [p \in Parents |->
               IF p = root_dept_id
               THEN Answer(failing # "listsub",
                           <<DeptItem(first_dept_id, root_dept_id)>>)
               ELSE Answer(TRUE, <<>>)],
    users |-> [p \in Parents |->
                 IF p = first_dept_id
                 THEN Answer(failing # "listsimple",
                             IF failing = "nobody" THEN <<>> ELSE <<UserItem(1)>>)
                 ELSE Answer(TRUE, <<>>)],
    type_ops |-> IF failing = "type/list" THEN {} ELSE UserIds,
    types |-> <<TypeItem(1, "day", 800)>>,
    vacation |-> [c \in LeaveCodes |->
                    Answer(failing # "record/list",
                           IF c = 1
                           THEN <<VacationItem(1, year_start_ms(1), year_start_ms(1) + 1,
                                               100, NULL, "success", None)>>
                           ELSE <<>>)]] :
     failing \in {"none", "nobody", "listsub", "listsimple", "type/list",
                  "record/list"}}

Settings == [admin_userid : {NULL} \cup UserIds, leave_type_names : {{}}]

InitBackend ==
  /\ InitGateway
  /\ sync_log = [i \in Triggers |-> <<>>]
  /\ sync_lock = FALSE
  /\ kind = [i \in Triggers |-> "none"]
  /\ pc = [i \in Triggers |-> <<"idle", 0>>]
  /\ args = [i \in Triggers |-> [year |-> NULL, dept_id |-> NULL]]
  /\ messages = [i \in Triggers |-> <<>>]
  /\ outcome = [i \in Triggers |-> [result |-> "none", err |-> ""]]
  /\ invoked = [i \in Triggers |-> <<>>]
  /\ traversal = [i \in Triggers |-> NoTraversal]

\* no query helper is being called
InitRuns == InitBackend /\ query = NoQuery

\* a fresh database, any of the pipeline's vendors
Init ==
  /\ remote \in PipelineRemotes
  /\ settings \in {st \in Settings : st.admin_userid \in {NULL, 1}}
  /\ department = {} /\ employee = {} /\ leave_type = {} /\ leave_record = {}
  /\ InitRuns

Next ==
  \E i \in Triggers :
    \/ \E y \in Years : trigger_sync(i, y)
    \/ run_sync(i)
    \/ scheduled_sync(i, current_year)
    \/ full_sync_create(i)
    \/ stage_create(i)
    \/ stage_run(i)
    \/ full_sync_finish(i)
    \/ full_sync_except(i)

Spec == Init /\ [][Next]_vars


\* ------------------------------------------- the leave-record stage alone
\* what the vendor may hold for user 1: start, end and the two record_num
\* values; the first five start in year 1, then one in the last instant of
\* year 1 and one in year 2; the last two are not leave consumption
ItemShapes ==
  {<<2, 3, 100, NULL, "success", None>>,
   <<2, 3, NULL, -480, "success", None>>,
   <<2, 3, 50, 400, "success", None>>,
   <<2, 3, NULL, NULL, "success", None>>,
   <<2, NULL, 100, NULL, "success", None>>,
   <<3, 4, 100, NULL, "success", None>>,
   <<4, 5, 100, NULL, "success", None>>,
   <<2, 4, 100, NULL, "success", "add">>,
   <<2, 4, 100, NULL, "reject", None>>}

VacationItems ==
  {VacationItem(1, sh[1], sh[2], sh[3], sh[4], sh[5], sh[6]) : sh \in ItemShapes}
    \cup {VacationItem(u, 2, 3, 100, NULL, "success", None) : u \in UserIds}

\* the vendor's records: up to MaxRecs of them, each under one leave code,
\* in the order the vendor lists them
RECURSIVE RecordLists(_)
RecordLists(n) ==
  IF n = 0 THEN {<<>>}
  ELSE LET shorter == RecordLists(n - 1)
       IN shorter \cup
          {Append(l, <<c, item>>) :
             l \in {x \in shorter : Len(x) = n - 1},
             c \in LeaveCodes, item \in VacationItems}

ItemsOf(l, c) ==
  LET mine == SelectSeq(l, LAMBDA x : x[1] = c)
  IN [i \in 1 .. Len(mine) |-> mine[i][2]]

\* no fetch fails, the fetches of one leave code fail, or all do
FailingCodes == {{}} \cup {{c} : c \in LeaveCodes} \cup {LeaveCodes}

RecordRemotes ==
  {[sub |-> [p \in Parents |-> Answer(TRUE, <<>>)],
    users |-> [p \in Parents |-> Answer(TRUE, <<>>)],
    type_ops |-> {},
    types |-> <<>>,
    vacation |-> [c \in LeaveCodes |-> Answer(c \notin failing, ItemsOf(l, c))]] :
     l \in {x \in RecordLists(MaxRecs) :
              \A a, b \in 1 .. Len(x) : a # b => x[a] # x[b]},
     failing \in FailingCodes}

EmployeeRow(u, d) ==
  [userid |-> u, name |-> UserNameOf(u), dept_id |-> d, dept_name |-> DeptNameOf(d)]
LeaveTypeRow(c) ==
  [leave_code |-> c, leave_name |-> LeaveNameOf(c),
   leave_view_unit |-> IF c = 1 THEN "day" ELSE "hour",
   hours_in_per_day |-> default_hours_in_per_day]
LeaveRecordRow(u, st) ==
  [userid |-> u, start_time |-> st, end_time |-> st + 1, duration_percent |-> 100,
   duration_unit |-> "percent_day", leave_type |-> LeaveNameOf(1),
   leave_code |-> 1, status |-> "approved"]

\* rows earlier runs left: one of user 1 at every instant of the time line
StoredRecords == {LeaveRecordRow(1, st) : st \in Times}

\* the local tables are full and the vendor's records vary, or the vendor
\* is fixed and the local tables and settings vary
InitRecords ==
  /\ InitRuns
  /\ department = {}
  /\ \/ /\ remote \in RecordRemotes
        /\ leave_record = StoredRecords
        /\ employee = {EmployeeRow(u, first_dept_id) : u \in UserIds}
        /\ leave_type = {LeaveTypeRow(c) : c \in LeaveCodes}
        /\ settings \in {[admin_userid |-> NULL, leave_type_names |-> {}],
                         [admin_userid |-> 1, leave_type_names |-> {LeaveNameOf(1)}]}
     \/ /\ remote \in {r \in RecordRemotes :
                         /\ \A c \in LeaveCodes : r.vacation[c].ok
                         /\ r.vacation[1].items =
                              <<VacationItem(1, 2, 3, 100, NULL, "success", None)>>
                         /\ \A c \in LeaveCodes \ {1} : r.vacation[c].items = <<>>}
        /\ \E n \in 0 .. MaxUsers :
             employee = {EmployeeRow(u, first_dept_id) : u \in 1 .. n}
        /\ \E n \in 0 .. MaxTypes :
             leave_type = {LeaveTypeRow(c) : c \in 1 .. n}
        /\ settings \in [admin_userid : {NULL, 1},
                         leave_type_names : {{}, {LeaveNameOf(1)}}]
        /\ leave_record \in {{}, StoredRecords}

NextRecords ==
  \E i \in Triggers :
    \/ \E y \in Years : call_stage(i, 4, y, NULL)
    \/ stage_run(i)

SpecRecords == InitRecords /\ [][NextRecords]_vars

\* ------------------------------- the leave-record stage, records that meet
\* the vendor's records of user 1 over the instants 2..3 with the values
\* varying, one of another end and one of another user
MeetingItems ==
  {VacationItem(1, 2, 3, 100, NULL, "success", None),
   VacationItem(1, 2, 3, NULL, -480, "success", None),
   VacationItem(1, 2, 3, 50, 400, "success", None),
   VacationItem(1, 2, 4, 100, NULL, "success", None),
   VacationItem(MaxUsers, 2, 3, 100, NULL, "success", None)}
\* up to two records under the first leave code, up to one under the others
MeetingLists(c) ==
  {<<>>} \cup {<<a>> : a \in MeetingItems}
    \cup (IF c = 1 THEN {<<a, b>> : a \in MeetingItems, b \in MeetingItems} ELSE {})

InitMeeting ==
  /\ InitRuns
  /\ \E v \in [LeaveCodes -> UNION {MeetingLists(c) : c \in LeaveCodes}] :
       /\ \A c \in LeaveCodes : v[c] \in MeetingLists(c)
       /\ remote = [sub |-> [p \in Parents |-> Answer(TRUE, <<>>)],
                    users |-> [p \in Parents |-> Answer(TRUE, <<>>)],
                    type_ops |-> {},
                    types |-> <<>>,
                    vacation |-> [c \in LeaveCodes |-> Answer(TRUE, v[c])]]
  /\ settings = [admin_userid |-> NULL, leave_type_names |-> {}]
  /\ department = {}
  /\ employee = {EmployeeRow(u, first_dept_id) : u \in UserIds}
  /\ leave_type = {LeaveTypeRow(c) : c \in LeaveCodes}
  /\ leave_record \in {{}, StoredRecords}

SpecMeeting == InitMeeting /\ [][NextRecords]_vars

\* ---------------------------- the leave-record stage, a large Employee table
\* no employee, one, and numbers around one batch of ids
StaffSizes == {0, 1, batch_size - 1, batch_size, batch_size + 1}

InitBatches ==
  /\ InitRuns
  /\ \E failing \in FailingCodes :
       remote = [sub |-> [p \in Parents |-> Answer(TRUE, <<>>)],
                 users |-> [p \in Parents |-> Answer(TRUE, <<>>)],
                 type_ops |-> {},
                 types |-> <<>>,
                 vacation |-> [c \in LeaveCodes |->
                   Answer(c \notin failing,
                          <<VacationItem(1, 2, 3, 100, NULL, "success", None)>>)]]
  /\ settings \in [admin_userid : {NULL, 1}, leave_type_names : {{}, {LeaveNameOf(1)}}]
  /\ department = {}
  /\ \E n \in StaffSizes : employee = {EmployeeRow(u, first_dept_id) : u \in 1 .. n}
  /\ \E n \in 0 .. MaxTypes : leave_type = {LeaveTypeRow(c) : c \in 1 .. n}
  /\ leave_record = {}

SpecBatches == InitBatches /\ [][NextRecords]_vars


\* ------------------------------------- the three upsert stages alone
\* the vendor's organisation: the parent of each department (NULL when the
\* vendor does not have it) and the departments that list each user
Children(parent_of, p) ==
  LET ds == SortedSeq({d \in DeptIds : parent_of[d] = p})
  IN [i \in 1 .. Len(ds) |-> DeptItem(ds[i], p)]
Members(member_of, p) ==
  LET us == SortedSeq({u \in UserIds : p \in member_of[u]})
  IN [i \in 1 .. Len(us) |-> UserItem(us[i])]

\* a department hangs under the root or under a department of smaller id
ParentMaps ==
  {f \in [DeptIds -> {NULL, root_dept_id} \cup DeptIds] :
     \A d \in DeptIds : f[d] \in DeptIds => f[d] < d}
\* a user is listed nowhere, under the root, or under one or two departments
MemberMaps ==
  [UserIds -> {{}, {root_dept_id}}
                \cup {{d} : d \in DeptIds} \cup {{first_dept_id, d} : d \in DeptIds}]

\* the leave types the vendor lists: any of the codes, in their order
TypeShapes == {<<"day", 800>>, <<"hour", NULL>>, <<None, 400>>}
TypeLists ==
  {SelectSeq([c \in LeaveCodes |-> f[c]], LAMBDA t : t # <<>>) :
     f \in {g \in [LeaveCodes -> {<<>>} \cup (LeaveCodes \X TypeShapes)] :
              \A c \in LeaveCodes : g[c] = <<>> \/ g[c][1] = c}}

TypeItems(l) == [i \in 1 .. Len(l) |-> TypeItem(l[i][1], l[i][2][1], l[i][2][2])]

OrgRemote(parent_of, failing_sub, member_of, failing_users, ops, types) ==
  [sub |-> [p \in Parents |-> Answer(p \notin failing_sub, Children(parent_of, p))],
   users |-> [p \in Parents |-> Answer(p \notin failing_users, Members(member_of, p))],
   type_ops |-> ops,
   types |-> types,
   vacation |-> [c \in LeaveCodes |-> Answer(TRUE, <<>>)]]

FlatOrg == [d \in DeptIds |-> root_dept_id]
OneMember == [u \in UserIds |-> IF u = 1 THEN {first_dept_id} ELSE {}]
OneType == <<TypeItem(1, "day", 800)>>

\* one of the three parts of the vendor's data varies, the others are fixed
TreeRemotes ==
  {OrgRemote(f, failing, OneMember, {}, UserIds, OneType) :
     f \in ParentMaps, failing \in {{}} \cup {{p} : p \in Parents}}
MemberRemotes ==
  {OrgRemote(FlatOrg, {}, m, failing, UserIds, OneType) :
     m \in MemberMaps, failing \in {{}, {first_dept_id}, {first_dept_id + 1}}}
TypeRemotes ==
  {OrgRemote(FlatOrg, {}, OneMember, {}, ops, TypeItems(l)) :
     ops \in {{}, {1}, {MaxUsers}, UserIds}, l \in TypeLists}

\* a fresh database, or the rows an earlier sync stored
InitStages ==
  /\ InitRuns
  /\ \/ /\ remote \in TreeRemotes \cup MemberRemotes
        /\ settings = [admin_userid |-> NULL, leave_type_names |-> {}]
     \/ /\ remote \in TypeRemotes
        /\ settings \in {st \in Settings : st.admin_userid \in {NULL, MaxUsers}}
  /\ leave_record = {}
  /\ \/ department = {} /\ employee = {} /\ leave_type = {}
     \/ /\ department = {[dept_id |-> first_dept_id,
                          name |-> DeptNameOf(first_dept_id + 1),
                          parent_id |-> root_dept_id]}
        /\ employee = {EmployeeRow(1, root_dept_id)}
        /\ leave_type = {LeaveTypeRow(1)}

\* sync_employees takes a department or None, the other stages nothing
StageDepts(k) == IF k = 2 THEN {NULL, first_dept_id} ELSE {NULL}

NextStages ==
  \E i \in Triggers :
    \/ \E k \in 1 .. 3 : \E d \in StageDepts(k) : call_stage(i, k, NULL, d)
    \/ stage_run(i)

SpecStages == InitStages /\ [][NextStages]_vars

\* ------------------------------------- the leave-type stage, many employees
\* more local employees than sync_leave_types reads; the configured admin is
\* unset, a local employee among the rows read, one beyond them, or nobody
\* the Employee table knows; the vendor accepts no operator, one, or all
StaffIds == 1 .. (candidate_limit + 2)
AdminIds == {NULL, 1, candidate_limit + 2, candidate_limit + 3}
OperatorSets ==
  {{}, StaffIds} \cup {{u} : u \in StaffIds \cup {candidate_limit + 3}}

InitCandidates ==
  /\ InitRuns
  /\ \E ops \in OperatorSets :
       remote = OrgRemote(FlatOrg, {}, OneMember, {}, ops, OneType)
  /\ \E a \in AdminIds : settings = [admin_userid |-> a, leave_type_names |-> {}]
  /\ \E staff \in SUBSET StaffIds :
       employee = {EmployeeRow(u, root_dept_id) : u \in staff}
  /\ department = {} /\ leave_record = {}
  /\ leave_type \in {{}, {LeaveTypeRow(MaxTypes)}}

NextCandidates ==
  \E i \in Triggers : call_stage(i, 3, NULL, NULL) \/ stage_run(i)

SpecCandidates == InitCandidates /\ [][NextCandidates]_vars

\* ------------------------------------------- the department stage alone
\* any child relation over the root and the departments: a department may be
\* listed under several parents, under itself or under a descendant, and the
\* root may be listed as a child
GraphRemote(children) ==
  [sub |-> [p \in Parents |->
              LET ds == SortedSeq(children[p])
              IN Answer(TRUE, [i \in 1 .. Len(ds) |-> DeptItem(ds[i], p)])],
   users |-> [p \in Parents |-> Answer(TRUE, <<>>)],
   type_ops |-> {},
   types |-> <<>>,
   vacation |-> [c \in LeaveCodes |-> Answer(TRUE, <<>>)]]

\* each lists nothing, one child or a pair of children
ChildSets == {{}} \cup {{a, b} : a \in Parents, b \in Parents}
GraphRemotes == {GraphRemote(children) : children \in [Parents -> ChildSets]}

InitTree ==
  /\ InitRuns
  /\ remote \in GraphRemotes
  /\ settings = [admin_userid |-> NULL, leave_type_names |-> {}]
  /\ employee = {} /\ leave_type = {} /\ leave_record = {}
  /\ department = {}

NextTree ==
  \E i \in Triggers :
    \/ call_stage(i, 1, NULL, NULL)
    \/ stage_run(i)

SpecTree == InitTree /\ [][NextTree]_vars

\* ------------------------------------------ the record fetcher, paged
\* the vendor's list under leave code 1: entry k is user 1's leave from
\* instant 2 to instant 2 + k, and is a consumption, a grant or a refusal
EntryKinds == {<<"success", None>>, <<"success", "add">>, <<"refused", None>>}
RECURSIVE EntryLists(_)
EntryLists(n) ==
  IF n = 0 THEN {<<>>}
  ELSE LET shorter == EntryLists(n - 1)
       IN shorter \cup
          {Append(l, VacationItem(1, year_start_ms(1), year_start_ms(1) + n,
                                  100, NULL, e[1], e[2])) :
             l \in {x \in shorter : Len(x) = n - 1}, e \in EntryKinds}

PagedRemote(l) ==
  [sub |-> [p \in Parents |-> Answer(TRUE, <<>>)],
   users |-> [p \in Parents |-> Answer(TRUE, <<>>)],
   type_ops |-> {},
   types |-> <<>>,
   vacation |-> [c \in LeaveCodes |-> Answer(TRUE, IF c = 1 THEN l ELSE <<>>)]]

PageSizes == {1, 2, default_size}
Offsets == {0, 1}

InitFetch ==
  /\ InitRuns
  /\ remote \in {PagedRemote(l) : l \in EntryLists(MaxRecs + 2)}
  /\ settings = [admin_userid |-> NULL, leave_type_names |-> {}]
  /\ department = {}
  /\ employee = {EmployeeRow(u, first_dept_id) : u \in UserIds}
  /\ leave_type = {LeaveTypeRow(c) : c \in LeaveCodes}
  /\ leave_record = {}

\* the fetcher is called on its own, from `offset` on in pages of `size`
call_get_vacation_record_list(i, leave_code, offset, size) ==
  /\ NextSlot(i)
  /\ \A j \in 1 .. (i - 1) : At(j) = "done"
  /\ kind' = [kind EXCEPT ![i] = "fetch"]
  /\ pc' = [pc EXCEPT ![i] = <<"done", 0>>]
  /\ invoked' = [invoked EXCEPT ![i] =
       Append(@, [stage |-> "get_vacation_record_list",
                  leave_code |-> leave_code, offset |-> offset, size |-> size,
                  result |-> get_vacation_record_list_from(
                               OpUserid, leave_code, SortedSeq(UserIds),
                               offset, size)])]
  /\ UNCHANGED <<gateway, query, traversal, remote, settings, department, employee, leave_type, leave_record,
                 sync_log, sync_lock, args, messages, outcome>>

NextFetch ==
  \E i \in Triggers :
    \/ \E offset \in Offsets, size \in PageSizes :
         call_get_vacation_record_list(i, 1, offset, size)
    \/ \E y \in Years : call_stage(i, 4, y, NULL)
    \/ stage_run(i)

SpecFetch == InitFetch /\ [][NextFetch]_vars

\* ------------------------------------------------------ the gateway alone
InitRequests ==
  /\ InitRuns
  /\ remote = PagedRemote(<<>>)
  /\ settings = [admin_userid |-> NULL, leave_type_names |-> {}]
  /\ department = {} /\ employee = {} /\ leave_type = {} /\ leave_record = {}

NextRequests ==
  \/ \E r \in Requests : request_start(r)
  \/ \E r \in Requests : \E resp \in TokenResponses : gettoken_response(r, resp)
  \/ \E r \in Requests : \E resp \in Responses : request_response(r, resp)
  \/ Tick

SpecRequests == InitRequests /\ [][NextRequests]_vars

\* ------------------------------------------- _convert_duration, called
Percents == {0, 50, 100, 250, 480, 1200}
HoursPerDay == {400, 800, 1200}

ConvertQueries ==
  {[fn |-> "_convert_duration", done |-> FALSE,
    duration_percent |-> p, duration_unit |-> u, target_unit |-> t,
    hours_in_per_day |-> h, result |-> Rat(0, 1)] :
     p \in Percents, u \in {"percent_day", "percent_hour"},
     t \in {"day", "hour"}, h \in HoursPerDay}

InitConvert ==
  /\ InitBackend
  /\ query \in ConvertQueries
  /\ remote = PagedRemote(<<>>)
  /\ settings = [admin_userid |-> NULL, leave_type_names |-> {}]
  /\ department = {} /\ employee = {} /\ leave_type = {} /\ leave_record = {}

call_convert_duration ==
  /\ query.fn = "_convert_duration"
  /\ ~query.done
  /\ query' = [query EXCEPT !.done = TRUE,
                            !.result = convert_duration(
                               query.duration_percent, query.duration_unit,
                               query.target_unit, query.hours_in_per_day)]
  /\ UNCHANGED <<sync_state, gateway, traversal>>

NextConvert == call_convert_duration

SpecConvert == InitConvert /\ [][NextConvert]_vars

\* ------------------------------------ full_sync over a whole organisation
\* a fresh database and a vendor that answers every call: any tree in which
\* the root has a sub-department, any placement of the users
OrgRemotes ==
  {OrgRemote(f, {}, m, {}, UserIds, OneType) :
     f \in {g \in ParentMaps : \E d \in DeptIds : g[d] = root_dept_id},
     m \in MemberMaps}

InitOrg ==
  /\ InitRuns
  /\ remote \in OrgRemotes
  /\ settings = [admin_userid |-> NULL, leave_type_names |-> {}]
  /\ department = {} /\ employee = {} /\ leave_type = {} /\ leave_record = {}

\* the cron job's runs; nothing fails, so full_sync's except block is not met
NextOrg ==
  \E i \in Triggers :
    \/ scheduled_sync(i, current_year)
    \/ full_sync_create(i)
    \/ stage_create(i)
    \/ stage_run(i)
    \/ full_sync_finish(i)

SpecOrg == InitOrg /\ [][NextOrg]_vars

\* ------------------------------------- get_user_list_simple, page by page
\* The call is followed request by request: `query` holds the cursor of the
\* request in flight, the cursors sent, the responses received and the users
\* collected. The server answers each request as it likes.
MaxPages == 3
Cursors == {0, 1, 100}
UserPages ==
  {<<>>} \cup {<<UserItem(u)>> : u \in UserIds} \cup {<<UserItem(1), UserItem(MaxUsers)>>}
\* result of one /topapi/user/listsimple response: the keys it has, and the
\* values of has_more and next_cursor when it has them
ListSimpleResults ==
  {r \in [list : UserPages, keys : SUBSET {"has_more", "next_cursor"},
          has_more : BOOLEAN, next_cursor : Cursors] :
     /\ "has_more" \notin r.keys => r.has_more = FALSE
     /\ "next_cursor" \notin r.keys => r.next_cursor = 0}
\* result.get(key, default)
ResultGet(result, key, default) == IF key \in result.keys THEN result[key] ELSE default

get_user_list_simple_call(dept_id) ==
  /\ query.fn \in {"none", "get_user_list_simple"}
  /\ query.fn = "get_user_list_simple" => query.at # "waiting"
  /\ query' = [fn |-> "get_user_list_simple", dept_id |-> dept_id, at |-> "waiting",
               cursor |-> 0, requests |-> <<0>>, responses |-> <<>>, users |-> <<>>]
  /\ UNCHANGED <<sync_state, gateway, traversal>>

\* a variant that advances the cursor by the page size
ListSimpleTurn_CountsOn(call, result) ==
  LET users == call.users \o [k \in 1 .. Len(result.list) |-> [userid |-> result.list[k].userid, name |-> result.list[k].name]]
      cursor == call.cursor + 100
  IN IF ResultGet(result, "has_more", FALSE)
     THEN [call EXCEPT !.users = users, !.cursor = cursor,
                       !.requests = Append(@, cursor),
                       !.responses = Append(@, result)]
     ELSE [call EXCEPT !.users = users, !.at = "returned",
                       !.responses = Append(@, result)]

\* one turn of the while True loop after the response came: collect the
\* page, then send the next request or return
ListSimpleTurn(call, result) ==
  LET users == call.users \o [k \in 1 .. Len(result.list) |-> [userid |-> result.list[k].userid, name |-> result.list[k].name]]
      cursor == ResultGet(result, "next_cursor", 0)
  IN IF ResultGet(result, "has_more", FALSE)
     THEN [call EXCEPT !.users = users, !.cursor = cursor,
                       !.requests = Append(@, cursor),
                       !.responses = Append(@, result)]
     ELSE [call EXCEPT !.users = users, !.at = "returned",
                       !.responses = Append(@, result)]

\* the server's answer arrives; page MaxPages is the last one it announces
get_user_list_simple_response(result) ==
  /\ query.fn = "get_user_list_simple" /\ query.at = "waiting"
  /\ Len(query.requests) = MaxPages => ~ResultGet(result, "has_more", FALSE)
  /\ query' = ListSimpleTurn(query, result)
  /\ UNCHANGED <<sync_state, gateway, traversal>>

\* dingtalk_client.post raises: the exception leaves the function
get_user_list_simple_raise ==
  /\ query.fn = "get_user_list_simple" /\ query.at = "waiting"
  /\ query' = [query EXCEPT !.at = "raised"]
  /\ UNCHANGED <<sync_state, gateway, traversal>>

InitListSimple ==
  /\ InitRuns
  /\ remote = PagedRemote(<<>>)
  /\ settings = [admin_userid |-> NULL, leave_type_names |-> {}]
  /\ department = {} /\ employee = {} /\ leave_type = {} /\ leave_record = {}

NextListSimple ==
  \/ \E d \in {root_dept_id, first_dept_id} : get_user_list_simple_call(d)
  \/ \E result \in ListSimpleResults : get_user_list_simple_response(result)
  \/ get_user_list_simple_raise

SpecListSimple == InitListSimple /\ [][NextListSimple]_vars

\* ------------- get_vacation_record_list and get_leave_status, page by page
\* The two offset pagers, followed request by request as above: `query`
\* holds the offsets sent, the responses received, the records collected and
\* whether a request raised.
LeaveStatusItem(u) ==
  [userid |-> u, start_time |-> 2, end_time |-> 3, duration_percent |-> 100, duration_unit |-> "percent_day"]
\* result.leave_records of one page, and result.leave_status of one page
OffsetPages(fn) ==
  IF fn = "get_vacation_record_list"
  THEN {<<>>, <<VacationItem(1, 2, 3, 100, NULL, "success", None)>>,
        <<VacationItem(1, 2, 3, 100, NULL, "reject", None),
          VacationItem(MaxUsers, 2, 3, NULL, 400, "success", None)>>}
  ELSE {<<>>, <<LeaveStatusItem(1)>>, <<LeaveStatusItem(1), LeaveStatusItem(MaxUsers)>>}
OffsetResults(fn) ==
  {r \in [list : OffsetPages(fn), keys : SUBSET {"has_more"}, has_more : BOOLEAN] :
     "has_more" \notin r.keys => r.has_more = FALSE}

offset_pager_call(fn, offset, size) ==
  /\ query.fn \in {"none", "get_vacation_record_list", "get_leave_status"}
  /\ query.fn # "none" => query.at # "waiting"
  /\ query' = [fn |-> fn, offset |-> offset, size |-> size, at |-> "waiting",
               current_offset |-> offset, requests |-> <<offset>>,
               responses |-> <<>>, records |-> <<>>, failed |-> FALSE]
  /\ UNCHANGED <<sync_state, gateway, traversal>>

\* the records one page adds: get_vacation_record_list keeps the leave
\* consumption, get_leave_status keeps every item
OffsetPageRecords(fn, list) ==
  IF fn = "get_vacation_record_list"
  THEN LET kept == SelectSeq(list, KeepVacationItem)
       IN [k \in 1 .. Len(kept) |->
             [userid |-> kept[k].userid, start_time |-> kept[k].start_time,
              end_time |-> kept[k].end_time,
              record_num_per_day |-> kept[k].record_num_per_day,
              record_num_per_hour |-> kept[k].record_num_per_hour,
              leave_status |-> kept[k].leave_status]]
  ELSE list

\* one turn of the while True loop after the response came
OffsetTurn(call, result) ==
  LET records == call.records \o OffsetPageRecords(call.fn, result.list)
  IN IF ResultGet(result, "has_more", FALSE)
     THEN [call EXCEPT !.records = records,
                       !.current_offset = @ + call.size,
                       !.requests = Append(@, call.current_offset + call.size),
                       !.responses = Append(@, result)]
     ELSE [call EXCEPT !.records = records, !.at = "returned",
                       !.responses = Append(@, result)]

offset_pager_response(result) ==
  /\ query.fn \in {"get_vacation_record_list", "get_leave_status"}
  /\ query.at = "waiting"
  /\ result \in OffsetResults(query.fn)
  /\ Len(query.requests) = MaxPages => ~ResultGet(result, "has_more", FALSE)
  /\ query' = OffsetTurn(query, result)
  /\ UNCHANGED <<sync_state, gateway, traversal>>

\* a variant that catches the exception and returns what it has
OffsetFailure_ReturnsPartial(call) == [call EXCEPT !.at = "returned", !.failed = TRUE]

\* dingtalk_client.post raises inside the loop: nothing catches it
OffsetFailure(call) == [call EXCEPT !.at = "raised", !.failed = TRUE]

offset_pager_raise ==
  /\ query.fn \in {"get_vacation_record_list", "get_leave_status"}
  /\ query.at = "waiting"
  /\ query' = OffsetFailure(query)
  /\ UNCHANGED <<sync_state, gateway, traversal>>

NextOffsets ==
  \/ \E fn \in {"get_vacation_record_list", "get_leave_status"} :
       \E offset \in Offsets : \E size \in PageSizes : offset_pager_call(fn, offset, size)
  \/ \E fn \in {"get_vacation_record_list", "get_leave_status"} :
       \E result \in OffsetResults(fn) : offset_pager_response(result)
  \/ offset_pager_raise

SpecOffsets == InitListSimple /\ [][NextOffsets]_vars

\* ------------------------------------------ _year_time_chunks, turn by turn
\* A datetime of the year asked for is <<day, second of the day>>, the day
\* counted from Jan 1 = 0; a day past Dec 31 is a day of the next year.
\* timestamp() is taken in whole seconds from Jan 1 00:00:00 (the code
\* multiplies by 1000); a calendar day has 86400 of them.
IsLeap(year) == year % 4 = 0 /\ (year % 100 # 0 \/ year % 400 = 0)
DaysIn(year) == IF IsLeap(year) THEN 366 ELSE 365
timestamp(d) == d[1] * 86400 + d[2]
Later(a, b) == a[1] > b[1] \/ (a[1] = b[1] /\ a[2] > b[2])
\* dt(year, 12, 31, 23, 59, 59)
YearEnd(year) == <<DaysIn(year) - 1, 86399>>

ChunkYears == {1900, 2000, 2023, 2024, 2025, 2100}
ChunkMaxDays == {30, 90, 179, 180, 181, 366}

\* a variant whose window reaches max_days days past its first day
ChunkTurn_FullSpan(call) ==
  LET chunk_end_date == call.chunk_start[1] + call.max_days
      whole == <<chunk_end_date, 86399>>
      chunk_end == IF Later(whole, YearEnd(call.year)) THEN YearEnd(call.year) ELSE whole
  IN [call EXCEPT !.chunks = Append(@, <<timestamp(call.chunk_start), timestamp(chunk_end)>>),
                  !.chunk_start = <<chunk_end[1] + 1, 0>>]

\* the body of the while loop
ChunkTurn(call) ==
  LET chunk_end_date == call.chunk_start[1] + (call.max_days - 1)
      whole == <<chunk_end_date, 86399>>
      chunk_end == IF Later(whole, YearEnd(call.year)) THEN YearEnd(call.year) ELSE whole
  IN [call EXCEPT !.chunks = Append(@, <<timestamp(call.chunk_start), timestamp(chunk_end)>>),
                  !.chunk_start = <<chunk_end[1] + 1, 0>>]

\* chunks = []; chunk_start = year_start
year_time_chunks_call(year, max_days) ==
  /\ query.fn \in {"none", "_year_time_chunks"}
  /\ query.fn = "_year_time_chunks" => query.at = "returned"
  /\ query' = [fn |-> "_year_time_chunks", year |-> year, max_days |-> max_days,
               at |-> "loop", chunk_start |-> <<0, 0>>, chunks |-> <<>>]
  /\ UNCHANGED <<sync_state, gateway, traversal>>

\* while chunk_start <= year_end: one turn
year_time_chunks_turn ==
  /\ query.fn = "_year_time_chunks" /\ query.at = "loop"
  /\ ~Later(query.chunk_start, YearEnd(query.year))
  /\ query' = ChunkTurn(query)
  /\ UNCHANGED <<sync_state, gateway, traversal>>

\* the loop condition fails: return chunks
year_time_chunks_return ==
  /\ query.fn = "_year_time_chunks" /\ query.at = "loop"
  /\ Later(query.chunk_start, YearEnd(query.year))
  /\ query' = [query EXCEPT !.at = "returned"]
  /\ UNCHANGED <<sync_state, gateway, traversal>>

NextChunks ==
  \/ \E year \in ChunkYears : \E max_days \in ChunkMaxDays :
       year_time_chunks_call(year, max_days)
  \/ year_time_chunks_turn
  \/ year_time_chunks_return

SpecChunks == InitListSimple /\ [][NextChunks]_vars

\* --------------------------------------------- _prorate_duration, called
\* chinese_calendar: not installed; the plain week; Wednesday a holiday;
\* Saturday a make-up workday; or data for the first days only
Calendars ==
  LET week == {d \in Dates : Weekday(d) < 5}
  IN {[installed |-> FALSE, known |-> {}, workdays |-> {}],
      [installed |-> TRUE, known |-> Dates, workdays |-> week],
      [installed |-> TRUE, known |-> Dates, workdays |-> week \ {2}],
      [installed |-> TRUE, known |-> Dates, workdays |-> week \cup {5}],
      [installed |-> TRUE, known |-> 0 .. 1, workdays |-> {0}]}

TypeMaps == {<<>>, <<1200>>}

Stamps == 0 .. (DayMs * MaxDay + 1)
\* a record of one day's value of leave code 1, any span of the time line,
\* any period, any calendar
InitProrate ==
  /\ InitBackend
  /\ \E st \in Stamps, et \in Stamps, ps \in Dates, pe \in Dates :
       /\ st <= et
       /\ ps <= pe
       /\ \E lt \in {"annual", "maternity"}, tm \in TypeMaps, cal \in Calendars :
            query = [fn |-> "_prorate_duration", done |-> FALSE,
                     rec |-> [start_time |-> st, end_time |-> et,
                              duration_percent |-> 100,
                              duration_unit |-> "percent_day",
                              leave_code |-> 1, leave_type |-> lt],
                     period_start |-> ps, period_end |-> pe, type_map |-> tm,
                     calendar |-> cal, result |-> Rat(0, 1)]
  /\ remote = PagedRemote(<<>>)
  /\ settings = [admin_userid |-> NULL, leave_type_names |-> {}]
  /\ department = {} /\ employee = {} /\ leave_type = {} /\ leave_record = {}

call_prorate_duration ==
  /\ query.fn = "_prorate_duration"
  /\ ~query.done
  /\ query' = [query EXCEPT !.done = TRUE,
                            !.result = prorate_duration(
                               query.rec, query.period_start, query.period_end,
                               query.type_map, "day")]
  /\ UNCHANGED <<sync_state, gateway, traversal>>

NextProrate == call_prorate_duration

SpecProrate == InitProrate /\ [][NextProrate]_vars

\* ------------------------------ the department stage and the endpoint
\* a fresh table, or one stale row of department 100 under the root
StaleDepartments ==
  {{}, {[dept_id |-> first_dept_id, name |-> "Old", parent_id |-> root_dept_id]}}

InitEndpoint ==
  /\ InitRuns
  /\ remote \in TreeRemotes
  /\ settings = [admin_userid |-> NULL, leave_type_names |-> {}]
  /\ employee = {} /\ leave_type = {} /\ leave_record = {}
  /\ department \in StaleDepartments

NextEndpoint ==
  \/ \E parentId \in {NULL} \cup Parents : get_departments(parentId)
  \/ \E i \in Triggers : call_stage(i, 1, NULL, NULL)
  \/ \E i \in Triggers : stage_run(i)

SpecEndpoint == InitEndpoint /\ [][NextEndpoint]_vars

\* -------------------------------- department syncs over a changing tree
\* every department is absent, under the root or under another department,
\* and following the parents never comes back
RECURSIVE ClimbsOut(_, _, _)
ClimbsOut(f, d, n) ==
  IF d \notin DeptIds THEN TRUE
  ELSE IF n = 0 THEN FALSE
  ELSE ClimbsOut(f, f[d], n - 1)

AcyclicParentMaps ==
  {f \in [DeptIds -> {NULL, root_dept_id} \cup DeptIds] :
     \A d \in DeptIds : ClimbsOut(f, d, MaxDept)}

DriftRemotes ==
  {OrgRemote(f, {}, OneMember, {}, UserIds, OneType) : f \in AcyclicParentMaps}

\* the organisation is rearranged at the vendor
remote_change ==
  /\ remote' \in DriftRemotes \ {remote}
  /\ UNCHANGED <<gateway, query, traversal, settings, department, employee,
                 leave_type, leave_record, sync_log, sync_lock, kind, pc, args,
                 messages, outcome, invoked>>

InitDrift ==
  /\ InitRuns
  /\ remote \in DriftRemotes
  /\ settings = [admin_userid |-> NULL, leave_type_names |-> {}]
  /\ department = {} /\ employee = {} /\ leave_type = {} /\ leave_record = {}

NextDrift ==
  \/ \E i \in Triggers : call_stage(i, 1, NULL, NULL)
  \/ \E i \in Triggers : sync_departments_begin(i)
  \/ \E i \in Triggers : sync_departments_step(i)
  \/ \E i \in Triggers : sync_departments_end(i)
  \/ remote_change

SpecDrift == InitDrift /\ [][NextDrift]_vars

\* ================================================================== claims
FullRuns == {i \in Triggers : kind[i] \in {"post", "cron"}}

\* triggered, and full_sync has not yet returned or raised
Unfinished(i) ==
  i \in FullRuns /\ At(i) \in {"queued", "start", "create", "run", "finish", "except"}

FullRow(i) == sync_log[i][1]

\* C1: at no time are two executions of full_sync in progress at once,
\* whichever triggers (POST /api/sync, the cron job) started them.
C1_OneFullSyncAtATime ==
  Cardinality({i \in Triggers : InFullSync(i)}) <= 1

\* C2: a POST /api/sync made while an earlier-triggered full sync has not
\* finished is answered success=false, and no run is left queued behind
\* another one.
C2_BusyPostIsRejected ==
  /\ [][\A i \in Triggers :
          (At(i) = "idle" /\ kind'[i] = "post" /\ \E j \in Triggers : Unfinished(j))
            => pc'[i][1] = "rejected"]_vars
  /\ [](\A i \in Triggers :
          At(i) = "queued" => \A j \in Triggers \ {i} : ~Unfinished(j))

\* C3: within full_sync, when a stage raises, no later stage is started (no
\* log row, no remote call of it), and once full_sync is over its `full` row
\* is failed and the exception went on to the caller.
C3_FailFast ==
  \A i \in FullRuns :
    \A n \in 1 .. Len(invoked[i]) :
      invoked[i][n].raised =>
        /\ n = Len(invoked[i])
        /\ Len(sync_log[i]) = 1 + n
        /\ At(i) \in {"except", "done"}
        /\ At(i) = "done" =>
             /\ FullRow(i).status = "failed"
             /\ FullRow(i).message = ErrorMsg("full", invoked[i][n].msg.text)
             /\ outcome[i].result = "raised"

C3_Witness ==
  \E i \in FullRuns :
    /\ At(i) = "done"
    /\ Len(invoked[i]) = 2
    /\ invoked[i][2].stage = "employee" /\ invoked[i][2].raised
    /\ invoked[i][2].before.department # {}

\* the leave-type stage of run i ended because no operator candidate worked
\* (every candidate's get_vacation_type_list call failed, or there was none)
NoCandidateWorked(i) ==
  /\ Len(invoked[i]) >= 3
  /\ invoked[i][3].stage = "leave_type"
  /\ \A u \in Range(invoked[i][3].calls) : u \notin remote.type_ops

\* C4 as claimed: when no operator candidate works in the leave-type stage,
\* the leave-record stage is not attempted and the `full` row ends failed.
C4_NoCandidateAbortsFull ==
  \A i \in FullRuns :
    NoCandidateWorked(i) =>
      /\ Len(invoked[i]) = 3
      /\ Len(sync_log[i]) = 4
      /\ At(i) = "done" => FullRow(i).status = "failed"

\* C4 as amended: when no operator candidate works, the leave-type row ends
\* failed but sync_leave_types returns without raising; full_sync goes on to
\* the leave-record stage, and its `full` row ends failed only if that
\* stage raises.
C4_NoCandidateContinues ==
  \A i \in FullRuns :
    NoCandidateWorked(i) =>
      /\ ~invoked[i][3].raised
      /\ sync_log[i][invoked[i][3].log_id].status = "failed"
      /\ At(i) = "done" =>
           /\ Len(invoked[i]) = 4
           /\ invoked[i][4].stage = "leave_record"
           /\ (FullRow(i).status = "failed") = invoked[i][4].raised

C4_Witness ==
  \E i \in FullRuns :
    /\ At(i) = "done"
    /\ NoCandidateWorked(i)
    /\ invoked[i][3].calls # <<>>
    /\ Len(invoked[i]) = 4
    /\ FullRow(i).status = "success"

\* C5: a SyncLog row is created running; a running row only goes to success
\* or failed; a row that is success or failed never changes again.
C5_LogRowLifecycle ==
  [][\A i \in Triggers :
       /\ Len(sync_log'[i]) >= Len(sync_log[i])
       /\ \A id \in 1 .. Len(sync_log'[i]) :
            IF id > Len(sync_log[i])
            THEN /\ sync_log'[i][id].status = "running"
                 /\ sync_log'[i][id].finished_at = 0
            ELSE IF sync_log[i][id].status = "running"
            THEN sync_log'[i][id].status \in {"running", "success", "failed"}
            ELSE sync_log'[i][id] = sync_log[i][id]]_vars

C5_Witness ==
  \E i \in Triggers :
    \E a, b \in 1 .. Len(sync_log[i]) :
      /\ sync_log[i][a].status = "failed" /\ sync_log[i][a].finished_at = 1
      /\ sync_log[i][b].status = "success" /\ sync_log[i][b].finished_at = 1
      /\ At(i) = "done"

\* the invocations of run i that have started: full_sync itself and its stages
StartedInvocations(i) ==
  (IF i \in FullRuns /\ At(i) \in {"create", "run", "finish", "except", "done"}
   THEN 1 ELSE 0)
  + Len(invoked[i]) + (IF At(i) = "run" THEN 1 ELSE 0)

\* C6: every invocation of a stage or of full_sync creates exactly one
\* SyncLog row, and when it has returned or raised the row is success with
\* the count summary it returned, or failed with the error text when it
\* raised; never still running.
C6_OneRowPerInvocation ==
  \A i \in Triggers :
    /\ Len(sync_log[i]) = StartedInvocations(i)
    /\ \A n \in 1 .. Len(invoked[i]) :
         LET e == invoked[i][n]
             row == sync_log[i][e.log_id]
         IN /\ \A m \in 1 .. Len(invoked[i]) :
                 invoked[i][m].log_id = e.log_id => m = n
            /\ row.sync_type = e.stage
            /\ row.status \in {"success", "failed"}
            /\ e.raised =>
                 row.status = "failed" /\ row.message = e.msg /\ e.msg.kind = "error"
            /\ (~e.raised /\ e.msg.kind = "count") =>
                 row.status = "success" /\ row.message = e.msg
    /\ (i \in FullRuns /\ outcome[i].result = "returned") =>
         /\ FullRow(i).sync_type = "full"
         /\ FullRow(i).status = "success"
         /\ FullRow(i).message = CombinedMsg(messages[i])
    /\ (i \in FullRuns /\ outcome[i].result = "raised") =>
         /\ FullRow(i).sync_type = "full"
         /\ FullRow(i).status = "failed"
         /\ FullRow(i).message.kind = "error"

C6_Witness ==
  \E i \in FullRuns :
    /\ outcome[i].result = "raised"
    /\ Len(invoked[i]) = 2
    /\ invoked[i][1].msg.kind = "count" /\ invoked[i][1].msg.n = 1
    /\ invoked[i][2].raised

\* the stage calls made on their own that have returned or raised
StageRuns(stage) ==
  {i \in Triggers :
     kind[i] = "stage" /\ Len(invoked[i]) = 1 /\ invoked[i][1].stage = stage}

Run(i) == invoked[i][1]

\* start_time lies in [Jan 1 00:00:00, Dec 31 23:59:59] of year y
InWindow(st, y) == st # NULL /\ st >= 2 * y /\ st <= 2 * y

\* C7: sync_leave_records(year) run twice in a row, with the same vendor
\* responses and unchanged employees and leave types, leaves after the
\* second run the same set of leave records as after the first.
C7_LeaveRecordsIdempotent ==
  \A i \in StageRuns("leave_record") :
    (/\ i + 1 \in StageRuns("leave_record")
     /\ Run(i + 1).args.year = Run(i).args.year)
      => Run(i + 1).after.leave_record = Run(i).after.leave_record

C7_Witness ==
  \E i \in StageRuns("leave_record") :
    /\ i + 1 \in StageRuns("leave_record")
    /\ Run(i + 1).args.year = Run(i).args.year
    /\ Run(i).msg.kind = "count" /\ Run(i).msg.n >= 1
    /\ \E old \in Run(i).before.leave_record :
         InWindow(old.start_time, Run(i).args.year)
           /\ old \notin Run(i).after.leave_record

\* C8: sync_departments, sync_employees or sync_leave_types run twice in
\* succession against unchanged remote data leaves the tables after the
\* second run equal to the tables after the first (the model has no
\* timestamp columns).
C8_UpsertStagesIdempotent ==
  \A stage \in {"department", "employee", "leave_type"} :
    \A i \in StageRuns(stage) :
      (i + 1 \in StageRuns(stage) /\ Run(i + 1).args = Run(i).args)
        => Run(i + 1).after = Run(i).after

C8_Witness ==
  \E i \in StageRuns("leave_type") :
    /\ i + 1 \in StageRuns("leave_type")
    /\ Run(i).msg.kind = "count" /\ Run(i).msg.n >= 1
    /\ Run(i).before.leave_type # {}
    /\ Run(i).before.leave_type # Run(i).after.leave_type

\* the leave codes the stage fetches for: the local leave types the
\* whitelist lets through
QueriedCodes == {QueriedLeaveTypes[k].leave_code : k \in 1 .. Len(QueriedLeaveTypes)}

\* the records the vendor returns for leave code c and the local employees
Returned(c) ==
  UNION {Range(get_vacation_record_list(OpUserid, c, Batches(LocalUserIds)[k]).items) :
           k \in 1 .. Len(Batches(LocalUserIds))}

\* the run got to its fetches; those for a raise, those for b succeed
FetchFailedFor(e, a, b) ==
  /\ e.msg.kind \in {"count", "error"}
  /\ a \in QueriedCodes /\ ~remote.vacation[a].ok
  /\ b \in QueriedCodes /\ remote.vacation[b].ok

\* C9 as claimed: when the fetches for leave type A raise and those for B
\* succeed, every in-year record returned for B is stored when the stage
\* ends, the stage does not raise and its log row ends success.
C9_EveryInYearRecordStored ==
  \A i \in StageRuns("leave_record") :
    \A a, b \in LeaveCodes :
      FetchFailedFor(Run(i), a, b) =>
        /\ ~Run(i).raised
        /\ sync_log[i][Run(i).log_id].status = "success"
        /\ \A rec \in Returned(b) :
             InWindow(rec.start_time, Run(i).args.year) =>
               \E r \in Run(i).after.leave_record : SameKey(r, rec)

\* C9 as amended: when the fetches for leave type A raise and those for B
\* succeed, every in-year record returned for B that has an end_time and at
\* least one of record_num_per_day and record_num_per_hour is stored when
\* the stage ends, the stage does not raise and its log row ends success.
C9_CompleteInYearRecordsStored ==
  \A i \in StageRuns("leave_record") :
    \A a, b \in LeaveCodes :
      FetchFailedFor(Run(i), a, b) =>
        /\ ~Run(i).raised
        /\ sync_log[i][Run(i).log_id].status = "success"
        /\ \A rec \in Returned(b) :
             (/\ InWindow(rec.start_time, Run(i).args.year)
              /\ rec.end_time # NULL /\ rec.end_time # 0
              /\ (rec.record_num_per_day # NULL \/ rec.record_num_per_hour # NULL))
               => \E r \in Run(i).after.leave_record : SameKey(r, rec)

C9_Witness ==
  \E i \in StageRuns("leave_record") :
    /\ FetchFailedFor(Run(i), 1, 2)
    /\ \E rec \in Returned(2) :
         /\ InWindow(rec.start_time, Run(i).args.year)
         /\ rec.record_num_per_hour # NULL
         /\ \E r \in Run(i).after.leave_record :
              SameKey(r, rec) /\ r.leave_code = 2 /\ r \notin Run(i).before.leave_record

\* C10: sync_leave_records(year) deletes the rows whose start_time lies in
\* the year's window, all of them once it is past its preconditions (what
\* is in the window afterwards came from the vendor in this run), and the
\* rows outside the window are the same before and after the run.
C10_OnlyYearWindowTouched ==
  \A i \in StageRuns("leave_record") :
    LET e == Run(i)
        y == e.args.year
    IN /\ {r \in e.after.leave_record : ~InWindow(r.start_time, y)}
            = {r \in e.before.leave_record : ~InWindow(r.start_time, y)}
       /\ e.msg.kind = "count" =>
            \A r \in e.after.leave_record :
              InWindow(r.start_time, y) =>
                \E c \in LeaveCodes : \E rec \in Returned(c) : SameKey(r, rec)

C10_Witness ==
  \E i \in StageRuns("leave_record") :
    LET e == Run(i)
        y == e.args.year
    IN /\ e.msg.kind = "count"
       /\ \E r \in e.before.leave_record :
            InWindow(r.start_time, y) /\ r \notin e.after.leave_record
       /\ \E r \in e.after.leave_record : r.start_time = 2 * y + 1
       /\ \E c \in LeaveCodes : \E rec \in Returned(c) :
            rec.start_time # NULL /\ ~InWindow(rec.start_time, y)

\* C11: no stage and no sequence of stages removes a Department, Employee
\* or LeaveType row: the dept_ids, userids and leave_codes stored locally
\* never shrink, also when the remote no longer lists them.
C11_RowsNeverRemoved ==
  [][/\ {r.dept_id : r \in department} \subseteq {r.dept_id : r \in department'}
     /\ {r.userid : r \in employee} \subseteq {r.userid : r \in employee'}
     /\ {r.leave_code : r \in leave_type}
          \subseteq {r.leave_code : r \in leave_type'}]_vars

\* a department sync stored rows and kept a row the remote does not list
C11_Witness ==
  \E i \in StageRuns("department") :
    /\ Run(i).msg.kind = "count" /\ Run(i).msg.n >= 1
    /\ \E r \in Run(i).before.department :
         /\ r \in department
         /\ \A p \in Parents : \A k \in 1 .. Len(remote.sub[p].items) :
              remote.sub[p].items[k].dept_id # r.dept_id

\* the run found no operator identity, no local employee or no leave type
CannotProceed(e) ==
  \/ settings.admin_userid = NULL /\ e.before.employee = {}
  \/ e.before.employee = {}
  \/ e.before.leave_type = {}

\* C12: when sync_leave_records cannot proceed (no operator identity, no
\* local employee or no local leave type) it marks its log row failed,
\* returns without raising, fetches nothing and leaves the LeaveRecord table
\* as it was: the delete of the year's rows is not executed.
C12_PreconditionsLeaveRecordsAlone ==
  \A i \in StageRuns("leave_record") :
    CannotProceed(Run(i)) =>
      /\ ~Run(i).raised
      /\ sync_log[i][Run(i).log_id].status = "failed"
      /\ Run(i).calls = <<>>
      /\ Run(i).after.leave_record = Run(i).before.leave_record

\* employees but no leave type, and rows of the year that stayed
C12_Witness ==
  \E i \in StageRuns("leave_record") :
    /\ Run(i).before.leave_type = {} /\ Run(i).before.employee # {}
    /\ \E r \in Run(i).before.leave_record :
         InWindow(r.start_time, Run(i).args.year) /\ r \in Run(i).after.leave_record

\* the while loop of a department run: its queue and its calls depend on
\* the remote alone, not on the table the run found
Bfs == DepartmentBfs(<<root_dept_id>>, {}, {}, 0, <<>>)

\* C13: whatever the remote child relation (several paths to a department,
\* cycles), sync_departments calls get_sub_departments at most once per
\* department id in a run, and its loop ends with an empty queue.
C13_BfsVisitsOnce ==
  StageRuns("department") # {} =>
    LET r == Bfs
    IN /\ \A i \in StageRuns("department") : Run(i).calls = r.calls
       /\ \A a, b \in 1 .. Len(r.calls) : r.calls[a] = r.calls[b] => a = b
       /\ ~r.raised => r.queue = <<>>

\* a department listed under two parents, and a cycle back to the root
C13_Witness ==
  \E i \in StageRuns("department") :
    /\ ~Run(i).raised
    /\ \E d \in DeptIds : \E p, q \in Range(Run(i).calls) :
         /\ p # q
         /\ \E k \in 1 .. Len(remote.sub[p].items) : remote.sub[p].items[k].dept_id = d
         /\ \E k \in 1 .. Len(remote.sub[q].items) : remote.sub[q].items[k].dept_id = d
         /\ \E k \in 1 .. Len(remote.sub[d].items) :
              remote.sub[d].items[k].dept_id = root_dept_id

\* the department ids the remote lists under p
ListedUnder(p) == {remote.sub[p].items[k].dept_id : k \in 1 .. Len(remote.sub[p].items)}

\* the remote is a tree: the root is listed nowhere, a department under at
\* most one parent
RemoteIsTree ==
  /\ \A p \in Parents : root_dept_id \notin ListedUnder(p)
  /\ \A d \in DeptIds : \A p, q \in Parents :
       (d \in ListedUnder(p) /\ d \in ListedUnder(q)) => p = q

\* the departments below the root
RECURSIVE BelowSet(_, _)
BelowSet(frontier, found) ==
  LET next == UNION {ListedUnder(p) : p \in frontier} \ found
  IN IF next = {} THEN found ELSE BelowSet(next, found \cup next)

BelowRoot == BelowSet({root_dept_id}, {})

\* C14: for a remote tree below the root, sync_departments upserts exactly
\* one Department row per department below the root, none for the root, and
\* its success message reports that number; the root 55205497 with the
\* single child 100 "Eng" and no grandchildren gives one row and count 1.
C14_OneRowPerDepartment ==
  \A i \in StageRuns("department") :
    RemoteIsTree =>
      LET e == Run(i)
          below == BelowRoot
      IN /\ ~e.raised
         /\ e.msg = CountMsg("department", Cardinality(below), <<>>)
         /\ sync_log[i][e.log_id].status = "success"
         /\ sync_log[i][e.log_id].message = e.msg
         /\ {r.dept_id : r \in e.after.department}
              = {r.dept_id : r \in e.before.department} \cup below
         /\ \A r \in e.after.department : r.dept_id # root_dept_id
         /\ \A d \in below :
              /\ Cardinality({r \in e.after.department : r.dept_id = d}) = 1
              /\ \E p \in Parents :
                   /\ d \in ListedUnder(p)
                   /\ [dept_id |-> d, name |-> DeptNameOf(d), parent_id |-> p]
                        \in e.after.department

\* the scenario: the root has the single child 100 "Eng", no grandchildren
C14_Witness ==
  \E i \in StageRuns("department") :
    /\ ListedUnder(root_dept_id) = {first_dept_id}
    /\ \A d \in DeptIds : ListedUnder(d) = {}
    /\ Run(i).before.department = {}
    /\ Run(i).after.department =
         {[dept_id |-> 100, name |-> "Eng", parent_id |-> 55205497]}
    /\ Run(i).msg.kind = "count" /\ Run(i).msg.n = 1

\* ---------------------------------------------------------------------
\* C15  get_vacation_record_list returns, in the vendor's order and once
\*      each, exactly the entries of the pages it fetched whose cal_type is
\*      null and whose leave_status is "success"; and sync_leave_records
\*      stores no row for an entry that is not of that kind
Fetches == {i \in Triggers : kind[i] = "fetch" /\ Len(invoked[i]) = 1}

\* the positions of the vendor's list from `offset` on that hold a
\* consumption that succeeded, in ascending order
Consumptions(offset) ==
  LET l == remote.vacation[1].items
  IN SortedSeq({k \in (offset + 1) .. Len(l) :
                  l[k].cal_type = None /\ l[k].leave_status = "success"})

C15_OnlySuccessfulConsumptions ==
  /\ \A i \in Fetches :
       LET e == Run(i)
           l == remote.vacation[1].items
           at == Consumptions(e.offset)
       IN /\ e.result.ok
          /\ Len(e.result.items) = Len(at)
          /\ \A k \in 1 .. Len(at) :
               /\ e.result.items[k].leave_status = "success"
               /\ SameKey(e.result.items[k], l[at[k]])
               /\ e.result.items[k].record_num_per_day = l[at[k]].record_num_per_day
               /\ e.result.items[k].record_num_per_hour = l[at[k]].record_num_per_hour
  /\ \A i \in StageRuns("leave_record") :
       \A r \in Run(i).after.leave_record :
         \E c \in LeaveCodes :
           \E k \in 1 .. Len(remote.vacation[c].items) :
             LET item == remote.vacation[c].items[k]
             IN /\ item.cal_type = None
                /\ item.leave_status = "success"
                /\ SameKey(r, item)

\* a grant, a consumption, a refusal and a second consumption, fetched in
\* pages of one from the second entry on, and synced
C15_Witness ==
  LET l == remote.vacation[1].items
  IN /\ Len(l) >= 3
     /\ l[1].cal_type # None
     /\ l[2].cal_type = None /\ l[2].leave_status = "success"
     /\ l[3].leave_status # "success"
     /\ \E i \in Fetches :
          /\ Run(i).offset = 1 /\ Run(i).size = 1
          /\ Len(Run(i).result.items) = 1
          /\ Run(i).result.items[1].end_time = l[2].end_time
     /\ \E i \in StageRuns("leave_record") :
          /\ ~Run(i).raised
          /\ Cardinality(Run(i).after.leave_record) = 1

\* ---------------------------------------------------------------------
\* C16  every request that went out carries either the cached token, which
\*      at the moment get_access_token chose it had more than 300 seconds
\*      left before the vendor lets it expire, or the token that this
\*      request's own refresh had just been issued; none carries a cached
\*      token that is expired or within 5 minutes of expiry
\*      (a token's life is counted from the arrival of the /gettoken answer,
\*      the only instant the client knows)
Sent == {r \in Requests : gateway_calls[r].via # "none"}

C16_RefreshThenUse ==
  \A r \in Sent :
    LET c == gateway_calls[r]
    IN \/ /\ c.via = "cache"
          /\ c.token \in 1 .. Len(issued)
          /\ c.left > 300
       \/ /\ c.via = "refresh"
          /\ c.token \in 1 .. Len(issued)
          /\ issued[c.token].to = r
          /\ c.left > 0

\* one request refreshed, and a later one was handed the cached token with
\* more than 300 seconds left and was answered
C16_Witness ==
  \E r, q \in Sent :
    /\ gateway_calls[r].via = "refresh"
    /\ gateway_calls[q].via = "cache"
    /\ gateway_calls[q].token = gateway_calls[r].token
    /\ gateway_calls[q].left > 300
    /\ gateway_calls[q].pc = "returned"

\* ---------------------------------------------------------------------
\* C17  at most one token-issuance call (GET /gettoken) is in flight at any
\*      time: requests that find the cache empty or due do not each start
\*      a refresh of their own
Refreshing == {r \in Requests : gateway_calls[r].pc = "gettoken"}

C17_OneIssuanceInFlight == Cardinality(Refreshing) <= 1

\* ---------------------------------------------------------------------
\* C18  a request whose answer carries a non-zero errcode returns nothing
\*      and raises DingTalkClientError with that errcode and errmsg; an HTTP
\*      error status raises an error of another kind; data is returned only
\*      when errcode is 0 or absent
Answered == {r \in Requests : gateway_calls[r].data.status # 0}

C18_ErrcodeIsRaised ==
  \A r \in Answered :
    LET c == gateway_calls[r]
        d == c.data
    IN /\ (d.status = 200 /\ d.has_errcode /\ d.errcode # 0) =>
            /\ ~c.returned
            /\ c.pc = "raised"
            /\ c.error.kind = "DingTalkClientError"
            /\ c.error.errcode = d.errcode
            /\ d.errmsg # None => c.error.errmsg = d.errmsg
       /\ d.status # 200 =>
            /\ ~c.returned
            /\ c.pc = "raised"
            /\ c.error.kind \notin {"none", "DingTalkClientError"}
       /\ c.returned =>
            /\ c.pc = "returned"
            /\ d.status = 200
            /\ ~d.has_errcode \/ d.errcode = 0
            /\ c.error.kind = "none"

\* one request was answered errcode 88 "busy" and raised it, another was
\* answered an envelope without errcode and returned it
C18_Witness ==
  \E r, q \in Answered :
    /\ gateway_calls[r].data = Envelope(200, TRUE, 88, "busy")
    /\ gateway_calls[r].error = DingTalkClientError(88, "busy")
    /\ ~gateway_calls[r].returned
    /\ gateway_calls[q].data = Envelope(200, FALSE, 0, None)
    /\ gateway_calls[q].returned

\* ---------------------------------------------------------------------
\* C19  _convert_duration(p, unit, target, h) is total_hours for target
\*      hour and total_hours / 8 for target day, where total_hours is p/100
\*      for percent_hour and (p/100)*(h/100) for percent_day; the divisor
\*      is 8 whatever h is.  (100, percent_day, day, 800) gives 1,
\*      (100, percent_day, day, 1200) gives 3/2 and
\*      (480, percent_hour, hour, 800) gives 24/5
Converted == query.fn = "_convert_duration" /\ query.done

C19_ConvertDuration ==
  Converted =>
    LET p == query.duration_percent
        h == query.hours_in_per_day
        \* total_hours, in ten-thousandths of an hour
        total_hours == IF query.duration_unit = "percent_hour" THEN p * 100
                       ELSE p * h
    IN /\ query.target_unit = "hour" =>
            query.result.num * 10000 = total_hours * query.result.den
       /\ query.target_unit = "day" =>
            query.result.num * 80000 = total_hours * query.result.den
       /\ (p = 100 /\ query.duration_unit = "percent_day"
             /\ query.target_unit = "day" /\ h = 800) =>
            query.result = [num |-> 1, den |-> 1]
       /\ (p = 100 /\ query.duration_unit = "percent_day"
             /\ query.target_unit = "day" /\ h = 1200) =>
            query.result = [num |-> 3, den |-> 2]
       /\ (p = 480 /\ query.duration_unit = "percent_hour"
             /\ query.target_unit = "hour" /\ h = 800) =>
            query.result = [num |-> 24, den |-> 5]

\* a day of a 12-hour type, asked for in days
C19_Witness ==
  /\ Converted
  /\ query.duration_percent = 100
  /\ query.duration_unit = "percent_day"
  /\ query.target_unit = "day"
  /\ query.hours_in_per_day = 1200
  /\ query.result = [num |-> 3, den |-> 2]

\* ---------------------------------------------------------------------
\* C20  a record whose span counts exactly one day, prorated onto a period
\*      that contains that day, gives the record's full value in days; a
\*      record prorated onto a period that shares no day with its span
\*      gives 0
Prorated == query.fn = "_prorate_duration" /\ query.done

SpanDays == ms_to_date(query.rec.start_time) .. ms_to_date(query.rec.end_time)

\* a workday by the holiday calendar where it has data, by the weekend rule
\* where it has none
Workday(d) ==
  \/ query.calendar.installed /\ d \in query.calendar.known
       /\ d \in query.calendar.workdays
  \/ ~(query.calendar.installed /\ d \in query.calendar.known) /\ d % 7 \notin {5, 6}

CountedDays ==
  IF query.rec.leave_type \in {"maternity", "marriage"} THEN SpanDays
  ELSE {d \in SpanDays : Workday(d)}

PeriodDays == query.period_start .. query.period_end

C20_ProrateOneWorkday ==
  Prorated =>
    LET h == IF query.type_map = <<>> THEN 800 ELSE query.type_map[1]
    IN /\ (Cardinality(CountedDays) = 1 /\ CountedDays \subseteq PeriodDays) =>
            query.result.num * 800 = h * query.result.den
       /\ SpanDays \cap PeriodDays = {} =>
            query.result.num = 0

\* one day of annual leave of a 12-hour type on a make-up Saturday, asked
\* for over the whole week: 3/2 days
C20_Witness ==
  /\ Prorated
  /\ query.rec.leave_type = "annual"
  /\ SpanDays = {5}
  /\ 5 \in query.calendar.workdays
  /\ PeriodDays = Dates
  /\ query.type_map = <<1200>>
  /\ query.result = [num |-> 3, den |-> 2]

\* ---------------------------------------------------------------------
\* C21 as claimed: the Department table changes only in a step of a sync
\*      stage; every other operation, GET /api/departments included,
\*      leaves it unchanged
StageStep == \E i \in Triggers : At(i) = "run" /\ pc'[i] # pc[i]

C21_OnlyStagesWriteDepartment ==
  [][department' # department => StageStep]_vars

\* C21 as amended: the Department table changes only in a step of a sync
\*      stage or in a call of GET /api/departments that finds no local row
\*      under the requested parent; the call then upserts the vendor's
\*      listing of that parent, and in every other case the endpoint
\*      leaves the table unchanged
EndpointStep == query'.fn = "get_departments" /\ pc' = pc

C21_EndpointFillsEmptyParentOnly ==
  [][department' # department =>
       \/ StageStep
       \/ /\ EndpointStep
          /\ \A d \in department : d.parent_id # query'.parent_id
          /\ remote.sub[query'.parent_id].ok
          /\ department' =
               UpsertDepartments(department, remote.sub[query'.parent_id].items)]_vars

\* the endpoint was called on a fresh table before any sync and stored the
\* vendor's listing of the root
C21_Witness ==
  /\ \A i \in Triggers : At(i) = "idle"
  /\ query.fn = "get_departments"
  /\ query.synced
  /\ query.parent_id = root_dept_id
  /\ department # {}
  /\ \A d \in department : d.parent_id = root_dept_id

\* ---------------------------------------------------------------------
\* C22  within one full_sync run the stage rows are created in the order
\*      department, employee, leave_type, leave_record, each only after the
\*      row before it reached success or failed: at most one stage row of
\*      the run is running
C22_StagesInOrder ==
  \A i \in FullRuns :
    LET rows == sync_log[i]
    IN /\ Len(rows) <= 1 + Len(Stages)
       /\ \A n \in 2 .. Len(rows) :
            /\ rows[n].sync_type = Stages[n - 1]
            /\ n < Len(rows) => rows[n].status \in {"success", "failed"}
       /\ Cardinality({n \in 2 .. Len(rows) : rows[n].status = "running"}) <= 1
       /\ \A n \in 1 .. Len(invoked[i]) : invoked[i][n].stage = Stages[n]

\* a run whose first three stage rows succeeded and whose leave-record row
\* is running
C22_Witness ==
  \E i \in FullRuns :
    /\ Len(sync_log[i]) = 5
    /\ \A n \in 2 .. 4 : sync_log[i][n].status = "success"
    /\ sync_log[i][5].sync_type = "leave_record"
    /\ sync_log[i][5].status = "running"

\* ---------------------------------------------------------------------
\* C23  whatever acyclic trees the vendor shows between and during
\*      department syncs, the local Department rows hold no parent_id cycle:
\*      following parent_id from any row ends at the configured root
RECURSIVE EndsAtRoot(_, _)
EndsAtRoot(d, n) ==
  IF d = root_dept_id THEN TRUE
  ELSE IF n = 0 THEN FALSE
  ELSE \E r \in department : r.dept_id = d /\ EndsAtRoot(r.parent_id, n - 1)

C23_LocalRowsFormATree ==
  \A r \in department : EndsAtRoot(r.dept_id, Cardinality(department))


\* C24  after a sync_employees call returned, every userid that one of the
\* run's department listings contained has an Employee row whose dept_id is
\* the department processed last among those whose listing contained it, and
\* whose dept_name is the name the local Department table had for that
\* department (None when the table had no row for it)
Listed(u, d) == \E k \in 1 .. Len(remote.users[d].items) : remote.users[d].items[k].userid = u
LastListing(u, calls) ==
  CHOOSE k \in 1 .. Len(calls) :
    /\ Listed(u, calls[k])
    /\ \A m \in (k + 1) .. Len(calls) : ~Listed(u, calls[m])
NameBefore(tbl, d) ==
  IF \E r \in tbl : r.dept_id = d
  THEN (CHOOSE r \in tbl : r.dept_id = d).name ELSE None
EmployeeRuns ==
  {e \in UNION {Range(invoked[i]) : i \in Triggers} :
     e.stage = "employee" /\ ~e.raised}
C24_LastDepartmentWins ==
  \A e \in EmployeeRuns : \A u \in UserIds :
    (\E k \in 1 .. Len(e.calls) : Listed(u, e.calls[k]))
      => \E r \in e.after.employee :
           /\ r.userid = u
           /\ r.dept_id = e.calls[LastListing(u, e.calls)]
           /\ r.dept_name = NameBefore(e.before.department, r.dept_id)
           /\ \A q \in e.after.employee : q.userid = u => q = r
\* a run that found one user in the listings of two departments
C24_Witness ==
  \E e \in EmployeeRuns : \E u \in UserIds :
    \E k, m \in 1 .. Len(e.calls) :
      /\ k < m /\ e.calls[k] # e.calls[m]
      /\ Listed(u, e.calls[k]) /\ Listed(u, e.calls[m])
      /\ \E r \in e.after.employee : r.userid = u /\ r.dept_name # None

\* C25  sync_leave_types tries the configured admin id first (when set),
\* then the local employee ids it read (at most 5, the admin id left out);
\* no candidate is tried twice, every candidate tried before the last one
\* failed, and the table afterwards is the table before with the types of
\* the successful call upserted (unchanged when no call succeeded)
LeaveTypeRuns ==
  UNION {{<<i, n>> : n \in 1 .. Len(invoked[i])} : i \in Triggers}
RowsRead(tbl) ==
  {u \in {r.userid : r \in tbl} :
     Cardinality({v \in {r.userid : r \in tbl} : v < u}) < candidate_limit}
C25_CandidateOrder ==
  \A x \in LeaveTypeRuns :
    LET e == invoked[x[1]][x[2]]
        admin == settings.admin_userid
        read == RowsRead(e.before.employee) \ {admin}
        tried == e.calls
        n == Len(tried)
        succeeded == n > 0 /\ tried[n] \in remote.type_ops
    IN e.stage = "leave_type" =>
         /\ \A k, m \in 1 .. n : k # m => tried[k] # tried[m]
         /\ admin # NULL /\ n > 0 => tried[1] = admin
         /\ \A k \in 1 .. n : tried[k] # admin => tried[k] \in read
         /\ \A k, m \in 1 .. n :
              k < m /\ tried[k] # admin /\ tried[m] # admin => tried[k] < tried[m]
         /\ \A k \in 1 .. (n - 1) : tried[k] \notin remote.type_ops
         /\ ~succeeded =>
              /\ {tried[k] : k \in 1 .. n} = read \cup ({admin} \ {NULL})
              /\ e.after.leave_type = e.before.leave_type
         /\ succeeded =>
              /\ tried[n] = admin => n = 1
              /\ \A u \in read :
                   tried[n] # admin /\ u < tried[n] => \E k \in 1 .. n : tried[k] = u
              /\ \A t \in Range(get_vacation_type_list(tried[n]).items) :
                   \E r \in e.after.leave_type :
                     /\ r.leave_code = t.leave_code
                     /\ r.leave_name = t.leave_name
                     /\ r.hours_in_per_day = t.hours_in_per_day
              /\ \A r \in e.after.leave_type :
                   \/ r \in e.before.leave_type
                   \/ \E t \in Range(get_vacation_type_list(tried[n]).items) :
                        r.leave_code = t.leave_code
\* a run with more than 5 local employees whose admin, one of the rows read,
\* failed, and in which a later candidate succeeded
C25_Witness ==
  \E x \in LeaveTypeRuns :
    LET e == invoked[x[1]][x[2]]
        n == Len(e.calls)
    IN /\ e.stage = "leave_type"
       /\ Cardinality(e.before.employee) > candidate_limit
       /\ settings.admin_userid \in RowsRead(e.before.employee)
       /\ n >= 3
       /\ e.calls[1] = settings.admin_userid
       /\ e.calls[n] \in remote.type_ops
       /\ e.after.leave_type # e.before.leave_type

\* the records a leave-record run fetched, in the order it looped over them,
\* each with the leave code it was fetched for
RECURSIVE FetchedBy(_)
FetchedBy(calls) ==
  IF calls = <<>> THEN <<>>
  ELSE LET got == get_vacation_record_list(OpUserid, Head(calls)[1], Head(calls)[2])
       IN (IF got.ok THEN [k \in 1 .. Len(got.items) |-> <<Head(calls)[1], got.items[k]>>]
           ELSE <<>>) \o FetchedBy(Tail(calls))
RecordRuns ==
  {e \in UNION {Range(invoked[i]) : i \in Triggers} : e.stage = "leave_record"}
\* the leave type's view unit as the run read it from the LeaveType table
UnitOf(e, c) ==
  LET lt == CHOOSE r \in e.before.leave_type : r.leave_code = c
  IN IF lt.leave_view_unit = "hour" THEN "hour" ELSE "other"
\* the rule of the claim: <<duration_percent, duration_unit>> or <<>>
Expected(rec, unit) ==
  LET h == rec.record_num_per_hour
      d == rec.record_num_per_day
  IN IF unit = "hour" /\ h # NULL THEN <<IF h < 0 THEN -h ELSE h, "percent_hour">>
     ELSE IF d # NULL THEN <<IF d < 0 THEN -d ELSE d, "percent_day">>
     ELSE IF h # NULL THEN <<IF h < 0 THEN -h ELSE h, "percent_hour">>
     ELSE <<>>
RowOf(tbl, rec) ==
  {r \in tbl : r.userid = rec.userid /\ r.start_time = rec.start_time
               /\ r.end_time = rec.end_time}

\* C26 (as stated)  every fetched record whose start_time is in the target
\* year and that has one of the two values is stored with the value and
\* unit the rule gives
C26_EveryInYearRecordStored ==
  \A e \in RecordRuns :
    LET f == FetchedBy(e.calls)
    IN \A k \in 1 .. Len(f) :
         LET rec == f[k][2]
             x == Expected(rec, UnitOf(e, f[k][1]))
         IN InYear(rec.start_time, e.args.year) /\ x # <<>>
              => \E r \in RowOf(e.after.leave_record, rec) :
                   r.duration_percent = x[1] /\ r.duration_unit = x[2]

\* C26  every fetched record with an end_time whose start_time is in the
\* target year is stored by the rule: |record_num_per_hour| as percent_hour
\* when the leave type's view unit is hour and the value is present, else
\* |record_num_per_day| as percent_day when present, else
\* |record_num_per_hour| as percent_hour when present, and nothing when both
\* are absent; the row of a triple carries what the rule gives for the last
\* fetched record of that triple that has a value. Every stored row has
\* duration_percent >= 0 and duration_unit percent_day or percent_hour.
C26_DurationRule ==
  /\ \A e \in RecordRuns :
       LET f == FetchedBy(e.calls)
           kept(k) == /\ InYear(f[k][2].start_time, e.args.year)
                      /\ ~Falsy(f[k][2].end_time)
                      /\ Expected(f[k][2], UnitOf(e, f[k][1])) # <<>>
           same(k, m) == /\ f[k][2].userid = f[m][2].userid
                         /\ f[k][2].start_time = f[m][2].start_time
                         /\ f[k][2].end_time = f[m][2].end_time
       IN \A k \in 1 .. Len(f) :
            LET rec == f[k][2]
                x == Expected(rec, UnitOf(e, f[k][1]))
            IN /\ kept(k) /\ (\A m \in (k + 1) .. Len(f) : ~(kept(m) /\ same(k, m)))
                   => \E r \in RowOf(e.after.leave_record, rec) :
                        r.duration_percent = x[1] /\ r.duration_unit = x[2]
               /\ InYear(rec.start_time, e.args.year)
                    /\ (\A m \in 1 .. Len(f) : same(k, m) => ~kept(m))
                   => RowOf(e.after.leave_record, rec) = {}
  /\ \A r \in leave_record :
       r.duration_percent >= 0 /\ r.duration_unit \in {"percent_day", "percent_hour"}
\* a run stored a record of an hour-unit leave type that carries both values
\* as percent_hour
C26_Witness ==
  /\ \E e \in RecordRuns : \E k \in 1 .. Len(FetchedBy(e.calls)) :
       LET rec == FetchedBy(e.calls)[k][2]
       IN /\ UnitOf(e, FetchedBy(e.calls)[k][1]) = "hour"
          /\ rec.record_num_per_day # NULL /\ rec.record_num_per_hour # NULL
          /\ \E r \in RowOf(e.after.leave_record, rec) :
               r.duration_unit = "percent_hour"
                 /\ r.duration_percent = rec.record_num_per_hour

\* C27  no two LeaveRecord rows share (userid, start_time, end_time), and
\* when a run upserts the same triple more than once, the one row of the
\* triple carries the duration_percent, duration_unit, leave_type and
\* leave_code of the last of those upserts
Upserted(e, f, k) ==
  /\ InYear(f[k][2].start_time, e.args.year)
  /\ ~Falsy(f[k][2].end_time)
  /\ Expected(f[k][2], UnitOf(e, f[k][1])) # <<>>
SameTriple(a, b) ==
  a.userid = b.userid /\ a.start_time = b.start_time /\ a.end_time = b.end_time
C27_OneRowPerTriple ==
  /\ \A r, q \in leave_record : SameTriple(r, q) => r = q
  /\ \A e \in RecordRuns :
       LET f == FetchedBy(e.calls)
       IN \A k, m \in 1 .. Len(f) :
            (/\ k < m
             /\ Upserted(e, f, k) /\ Upserted(e, f, m)
             /\ SameTriple(f[k][2], f[m][2])
             /\ \A n \in (m + 1) .. Len(f) :
                  ~(Upserted(e, f, n) /\ SameTriple(f[n][2], f[m][2])))
              => LET x == Expected(f[m][2], UnitOf(e, f[m][1]))
                     rows == RowOf(e.after.leave_record, f[m][2])
                 IN /\ Cardinality(rows) = 1
                    /\ \A r \in rows :
                         /\ r.duration_percent = x[1]
                         /\ r.duration_unit = x[2]
                         /\ r.leave_code = f[m][1]
                         /\ \E lt \in e.before.leave_type :
                              lt.leave_code = f[m][1] /\ r.leave_type = lt.leave_name
\* a run upserted one triple under two leave codes with different durations
C27_Witness ==
  \E e \in RecordRuns :
    LET f == FetchedBy(e.calls)
    IN \E k, m \in 1 .. Len(f) :
         /\ k < m /\ f[k][1] # f[m][1]
         /\ Upserted(e, f, k) /\ Upserted(e, f, m)
         /\ SameTriple(f[k][2], f[m][2])
         /\ Expected(f[k][2], UnitOf(e, f[k][1])) # Expected(f[m][2], UnitOf(e, f[m][1]))
         /\ \E r \in RowOf(e.after.leave_record, f[m][2]) : r.leave_code = f[m][1]

\* C28  in a sync_leave_records run that reaches its loop, for every leave
\* type queried the batches of user ids passed to get_vacation_record_list
\* hold between 1 and 50 ids each, and every local employee id is in exactly
\* one of them, once
BatchesFor(e, c) == SelectSeq(e.calls, LAMBDA x : x[1] = c)
CodesQueriedBy(e) ==
  {r.leave_code : r \in {t \in e.before.leave_type :
     settings.leave_type_names = {} \/ t.leave_name \in settings.leave_type_names}}
C28_BatchesPartitionEmployees ==
  \A e \in RecordRuns :
    /\ {x[1] : x \in Range(e.calls)} \subseteq CodesQueriedBy(e)
    /\ e.msg.kind = "count" =>
         \A c \in CodesQueriedBy(e) :
           LET b == BatchesFor(e, c)
           IN /\ \A k \in 1 .. Len(b) : Len(b[k][2]) >= 1 /\ Len(b[k][2]) <= batch_size
              /\ \A u \in {r.userid : r \in e.before.employee} :
                   Cardinality({<<k, j>> \in (1 .. Len(b)) \X (1 .. batch_size) :
                                  j <= Len(b[k][2]) /\ b[k][2][j] = u}) = 1
              /\ \A k \in 1 .. Len(b) :
                   Range(b[k][2]) \subseteq {r.userid : r \in e.before.employee}
\* a run over 51 employees passed a full batch and a batch of one id
C28_Witness ==
  \E e \in RecordRuns : \E c \in CodesQueriedBy(e) :
    LET b == BatchesFor(e, c)
    IN /\ Len(b) = 2
       /\ Len(b[1][2]) = batch_size /\ Len(b[2][2]) = 1
       /\ Cardinality(e.before.employee) = batch_size + 1

\* C29  get_user_list_simple sends its first request with cursor 0 and every
\* later request with the next_cursor of the response just before it (0 when
\* that response has none); it is waiting only while every response so far
\* had has_more true, returns at the first response whose has_more is not
\* true, and returns the items of all fetched pages, each once, in page order
RECURSIVE PagesInOrder(_)
PagesInOrder(responses) ==
  IF responses = <<>> THEN <<>>
  ELSE Head(responses).list \o PagesInOrder(Tail(responses))
SaysMore(result) == "has_more" \in result.keys /\ result.has_more
C29_CursorPaging ==
  query.fn = "get_user_list_simple" =>
    LET n == Len(query.responses)
    IN /\ query.requests[1] = 0
       /\ \A k \in 2 .. Len(query.requests) :
            query.requests[k] =
              IF "next_cursor" \in query.responses[k - 1].keys
              THEN query.responses[k - 1].next_cursor ELSE 0
       /\ \A k \in 1 .. (n - 1) : SaysMore(query.responses[k])
       /\ query.at = "waiting" =>
            /\ Len(query.requests) = n + 1
            /\ \A k \in 1 .. n : SaysMore(query.responses[k])
       /\ query.at = "returned" =>
            /\ n >= 1 /\ ~SaysMore(query.responses[n])
            /\ Len(query.requests) = n
            /\ Len(query.users) = Len(PagesInOrder(query.responses))
            /\ \A k \in 1 .. Len(query.users) :
                 /\ query.users[k].userid = PagesInOrder(query.responses)[k].userid
                 /\ query.users[k].name = PagesInOrder(query.responses)[k].name
       /\ n >= 1 /\ ~SaysMore(query.responses[n]) => query.at = "returned"
\* a call returned after three pages, the second asked for with a cursor
\* other than 0 and the third with another one
C29_Witness ==
  /\ query.fn = "get_user_list_simple" /\ query.at = "returned"
  /\ Len(query.responses) = 3
  /\ query.requests[2] # 0 /\ query.requests[3] # query.requests[2]
  /\ Len(query.users) >= 3

\* C30  get_vacation_record_list and get_leave_status ask for the offsets
\* offset, offset + size, offset + 2 * size, ..., each larger than the one
\* before, one request per page; they go on only while every response had
\* has_more true and return at the first response whose has_more is not
\* true; a request that raises ends the call with the exception and no
\* return value, whatever pages were fetched before
C30_OffsetPaging ==
  query.fn \in {"get_vacation_record_list", "get_leave_status"} =>
    LET n == Len(query.responses)
    IN /\ \A k \in 1 .. Len(query.requests) :
            query.requests[k] = query.offset + (k - 1) * query.size
       /\ \A k \in 2 .. Len(query.requests) : query.requests[k - 1] < query.requests[k]
       /\ \A k \in 1 .. (n - 1) : SaysMore(query.responses[k])
       /\ query.at = "waiting" =>
            /\ Len(query.requests) = n + 1
            /\ \A k \in 1 .. n : SaysMore(query.responses[k])
       /\ query.at = "returned" =>
            /\ ~query.failed
            /\ n >= 1 /\ ~SaysMore(query.responses[n])
            /\ Len(query.requests) = n
       /\ n >= 1 /\ ~SaysMore(query.responses[n]) => query.at = "returned"
       /\ query.failed <=> query.at = "raised"
       /\ query.at = "raised" =>
            /\ Len(query.requests) = n + 1
            /\ \A k \in 1 .. n : SaysMore(query.responses[k])
\* a call whose third request raised after two pages with records
C30_Witness ==
  /\ query.fn \in {"get_vacation_record_list", "get_leave_status"}
  /\ query.at = "raised"
  /\ Len(query.responses) = 2
  /\ Len(query.records) >= 2
  /\ query.offset > 0 /\ query.size > 1

\* C31  _year_time_chunks(year, 180) returns windows in increasing order;
\* the first starts at Jan 1 00:00:00 and the last ends at Dec 31 23:59:59
\* of the year, each window covers at most 180 calendar days, each next
\* window starts on the calendar day after the one before ends, and every
\* calendar day of the year lies in exactly one window
FirstDay(w) == w[1] \div 86400
LastDay(w) == w[2] \div 86400
C31_WindowsPartitionTheYear ==
  (query.fn = "_year_time_chunks" /\ query.at = "returned" /\ query.max_days = 180) =>
    LET c == query.chunks
        n == Len(c)
        last == IF IsLeap(query.year) THEN 365 ELSE 364
    IN /\ n >= 1
       /\ c[1][1] = 0
       /\ c[n][2] = last * 86400 + 23 * 3600 + 59 * 60 + 59
       /\ \A k \in 1 .. n :
            /\ c[k][1] < c[k][2]
            /\ c[k][1] % 86400 = 0
            /\ c[k][2] % 86400 = 86399
            /\ LastDay(c[k]) - FirstDay(c[k]) + 1 <= 180
       /\ \A k \in 1 .. (n - 1) :
            /\ c[k][2] < c[k + 1][1]
            /\ FirstDay(c[k + 1]) = LastDay(c[k]) + 1
       /\ \A day \in 0 .. last :
            Cardinality({k \in 1 .. n : FirstDay(c[k]) <= day /\ day <= LastDay(c[k])}) = 1
\* a leap year split into windows of 180, 180 and 6 days
C31_Witness ==
  /\ query.fn = "_year_time_chunks" /\ query.at = "returned" /\ query.max_days = 180
  /\ IsLeap(query.year)
  /\ Len(query.chunks) = 3
  /\ LastDay(query.chunks[1]) = 179
  /\ FirstDay(query.chunks[3]) = 360 /\ LastDay(query.chunks[3]) = 365

\* C32  when a remote listing fails partway through sync_departments or
\* sync_employees, every row upserted from the listings fetched before the
\* failure is in the table afterwards, every row of the table is a row it
\* had before or a whole row of one of those listings, the stage's log row
\* is failed with the error text, and the exception reaches the caller
FailedRuns ==
  {x \in UNION {{<<i, n>> : n \in 1 .. Len(invoked[i])} : i \in Triggers} :
     /\ invoked[x[1]][x[2]].raised
     /\ invoked[x[1]][x[2]].stage \in {"department", "employee"}}
\* the whole rows the listings fetched by the first n calls would write
DepartmentRowsOf(calls, n) ==
  UNION {{[dept_id |-> it.dept_id, name |-> it.name, parent_id |-> it.parent_id] :
            it \in Range(remote.sub[calls[k]].items)} : k \in 1 .. n}
EmployeeRowsOf(calls, n, depts) ==
  UNION {{[userid |-> it.userid, name |-> it.name, dept_id |-> calls[k],
           dept_name |-> NameBefore(depts, calls[k])] :
            it \in Range(remote.users[calls[k]].items)} : k \in 1 .. n}
C32_PartialFailureKeepsRows ==
  \A x \in FailedRuns :
    LET i == x[1]
        e == invoked[i][x[2]]
        n == Len(e.calls)
        written == IF e.stage = "department" THEN DepartmentRowsOf(e.calls, n - 1)
                   ELSE EmployeeRowsOf(e.calls, n - 1, e.before.department)
        before == IF e.stage = "department" THEN e.before.department ELSE e.before.employee
        after == IF e.stage = "department" THEN e.after.department ELSE e.after.employee
        key(r) == IF e.stage = "department" THEN r.dept_id ELSE r.userid
    IN /\ n >= 1
       /\ IF e.stage = "department" THEN ~remote.sub[e.calls[n]].ok
          ELSE ~remote.users[e.calls[n]].ok
       /\ \A w \in written : \E r \in after : key(r) = key(w)
       /\ after \subseteq before \cup written
       /\ \A r \in before : (\A w \in written : key(w) # key(r)) => r \in after
       /\ \A r, q \in after : key(r) = key(q) => r = q
       /\ sync_log[i][e.log_id].status = "failed"
       /\ sync_log[i][e.log_id].message = e.msg
       /\ e.msg.kind = "error" /\ e.msg.stage = e.stage /\ e.msg.text # ""
       /\ kind[i] = "stage" => outcome[i].result = "raised" /\ outcome[i].err = e.msg.text
       /\ kind[i] # "stage" => At(i) \in {"except", "done"}
\* a department run that failed after it had upserted the root's children
C32_DepartmentCase ==
  \E x \in FailedRuns :
    LET e == invoked[x[1]][x[2]]
    IN /\ e.stage = "department"
       /\ Len(e.calls) >= 2
       /\ e.after.department # e.before.department
       /\ DepartmentRowsOf(e.calls, Len(e.calls) - 1) # {}
\* an employee run that failed after it had upserted the users of a department
C32_Witness ==
  \E x \in FailedRuns :
    LET e == invoked[x[1]][x[2]]
    IN /\ e.stage = "employee"
       /\ Len(e.calls) >= 2
       /\ e.after.employee # e.before.employee

\* the log row of the n-th stage of run i
StageRow(i, n) == sync_log[i][invoked[i][n].log_id]
FullSucceeded(i) == i \in FullRuns /\ Len(sync_log[i]) >= 1 /\ FullRow(i).status = "success"

\* C33 (as stated)  whenever a `full` row has status success, each of the
\* four stage rows of that run has status success
C33_FullSuccessMeansStagesSuccess ==
  \A i \in Triggers :
    FullSucceeded(i) =>
      /\ Len(invoked[i]) = Len(Stages)
      /\ \A n \in 1 .. Len(Stages) : StageRow(i, n).status = "success"

\* C33  whenever a `full` row has status success, the run called the four
\* stages in order and none of them raised; the department and employee rows
\* have status success, and the leave_type and leave_record rows have status
\* success or are failed by a stage that returned at one of its
\* preconditions (no operator candidate worked, no op_userid, no employees,
\* no leave types) with its skip message
C33_FullSuccessMeansNoStageRaised ==
  \A i \in Triggers :
    FullSucceeded(i) =>
      /\ Len(invoked[i]) = Len(Stages)
      /\ \A n \in 1 .. Len(Stages) :
           /\ invoked[i][n].stage = Stages[n]
           /\ ~invoked[i][n].raised
           /\ StageRow(i, n).sync_type = Stages[n]
           /\ StageRow(i, n).status \in {"success", "failed"}
           /\ StageRow(i, n).status = "failed" =>
                /\ n \in {3, 4}
                /\ StageRow(i, n).message.kind = "skip"
                /\ invoked[i][n].after = invoked[i][n].before
\* a full run recorded as success whose leave_type row is failed
C33_Witness ==
  \E i \in Triggers :
    /\ FullSucceeded(i)
    /\ Len(invoked[i]) = Len(Stages)
    /\ StageRow(i, 3).status = "failed"
    /\ StageRow(i, 1).status = "success" /\ StageRow(i, 2).status = "success"

\* C34  when a sync_leave_records(year) run gets past its preconditions and
\* none of its vacation-record fetches returns (each one raises, or the
\* whitelist leaves no leave type to ask for), the leave records stored for
\* that year before the run are still stored when the stage ends
NoFetchReturned(e) ==
  \A k \in 1 .. Len(e.calls) : ~remote.vacation[e.calls[k][1]].ok
C34_FailedFetchesKeepYear ==
  \A e \in RecordRuns :
    (e.msg.kind = "count" /\ NoFetchReturned(e)) =>
      \A r \in e.before.leave_record :
        InYear(r.start_time, e.args.year) => r \in e.after.leave_record

\* the departments the vendor's listings lead to from the root in n steps
RECURSIVE ReachableFromRoot(_)
ReachableFromRoot(n) ==
  IF n = 0 THEN {root_dept_id}
  ELSE LET near == ReachableFromRoot(n - 1)
       IN near \cup {it.dept_id : it \in UNION {Range(remote.sub[p].items) : p \in near \cap Parents}}
Completed(i) == i \in FullRuns /\ At(i) = "done" /\ outcome[i].result = "returned"

\* C35  after a full_sync that completed against a vendor whose root has a
\* sub-department, every user the vendor lists under the root or under a
\* department reachable from it has an Employee row
C35_EveryListedUserHasARow ==
  (\E i \in Triggers : Completed(i)) =>
    \A d \in ReachableFromRoot(MaxDept) \cap Parents :
      \A u \in {it.userid : it \in Range(remote.users[d].items)} :
        \E r \in employee : r.userid = u

\* the same for the departments below the root only
UsersBelowRootHaveRows ==
  (\E i \in Triggers : Completed(i)) =>
    \A d \in (ReachableFromRoot(MaxDept) \cap Parents) \ {root_dept_id} :
      \A u \in {it.userid : it \in Range(remote.users[d].items)} :
        \E r \in employee : r.userid = u

\* C36  the N of the department stage's message 'Synced N departments' is
\* the number of distinct department ids the run upserted, whatever child
\* relation the vendor shows, a department listed under several visited
\* parents included
DepartmentRuns ==
  {e \in UNION {Range(invoked[i]) : i \in Triggers} :
     e.stage = "department" /\ ~e.raised}
UpsertedIds(e) ==
  {it.dept_id : it \in UNION {Range(remote.sub[p].items) : p \in Range(e.calls)}}
C36_CountIsDistinctDepartments ==
  \A e \in DepartmentRuns :
    e.msg.kind = "count" /\ e.msg.n = Cardinality(UpsertedIds(e))

\* the same over the runs in which no department is listed twice
ListedOnce(e) ==
  \A p, q \in Range(e.calls) : \A a \in Range(remote.sub[p].items) :
    \A b \in Range(remote.sub[q].items) : a.dept_id = b.dept_id => p = q
CountOfTreeIsDistinctDepartments ==
  \A e \in DepartmentRuns :
    ListedOnce(e) => e.msg.n = Cardinality(UpsertedIds(e))

\* C37  whatever the interleaving of the gateway's requests, the cached
\* token and the cached expiry are those of one and the same successful
\* /gettoken response, or both are as __init__ left them; and a refresh
\* that raises (HTTP error or non-zero errcode) changes neither.
CacheFromOneResponse ==
  \/ access_token = NULL /\ token_expires_at = 0
  \/ /\ access_token \in 1 .. Len(issued)
     /\ token_expires_at = issued[access_token].expires - TOKEN_REFRESH_BUFFER
RefreshFails ==
  \E r \in Requests :
    gateway_calls[r].pc = "gettoken" /\ gateway_calls'[r].pc = "raised"
C37_CacheFromOneResponse ==
  CacheFromOneResponse
    /\ [][/\ CacheFromOneResponse'
          /\ RefreshFails => UNCHANGED <<access_token, token_expires_at>>]_vars
\* two token responses with different expiries have arrived and the cache
\* holds the second
C37_Witness ==
  /\ Len(issued) = 2
  /\ issued[1].expires # issued[2].expires
  /\ access_token = 2
\* a refresh failed while a token was cached
C37_FailedRefreshCase ==
  /\ access_token # NULL
  /\ \E r \in Requests :
       /\ gateway_calls[r].pc = "raised"
       /\ gateway_calls[r].token = NULL

\* C38  when a background sync started by POST /api/sync ends, full_sync
\* having returned or raised, the sync lock is released in that step; and
\* once such a run has ended, a POST /api/sync that arrives while no
\* POST-started run is inside the lock is accepted: a failed run never
\* blocks later ones.
PostRuns == {i \in Triggers : kind[i] = "post"}
EndedPostRuns == {i \in PostRuns : At(i) = "done"}
C38_EndedRunReleasesLock ==
  [][/\ \A i \in PostRuns :
          (InFullSync(i) /\ pc'[i][1] = "done") => ~sync_lock'
     /\ \A j \in Triggers :
          (/\ At(j) = "idle" /\ kind'[j] = "post"
           /\ EndedPostRuns # {}
           /\ \A i \in PostRuns : ~InFullSync(i))
            => pc'[j][1] = "queued"]_vars
\* a POST-started run raised and ended, and a later POST-started run has
\* entered the lock since
C38_Witness ==
  \E i, j \in PostRuns :
    /\ i < j
    /\ At(i) = "done" /\ outcome[i].result = "raised"
    /\ InFullSync(j) /\ sync_lock

=========================================================================
